---- MODULE Spec2Model ----
(***************************************************************************)
(* Worldlines: ingestion / deduplication pipeline and the multi-stage job  *)
(* orchestrator (src/worldlines/jobs.py, ingestion/normalize.py,           *)
(* ingestion/dedup.py, storage/schema.py).                                 *)
(*                                                                         *)
(* Text is a sequence of characters (one-character strings; "NUL" stands   *)
(* for U+0000, "COMB" for a combining acute accent, "e_acute" for the      *)
(* precomposed letter).  Times are integers counted in hours.  uuid4() is  *)
(* a fresh value drawn from a counter.  SHA-256 is taken to be injective:  *)
(* the digest of a string is modelled by the string itself.                *)
(***************************************************************************)
EXTENDS Integers, Sequences, FiniteSets, TLC

VARIABLES
    now,                \* wall clock (hours)
    next_uuid,          \* source of uuid4() values
    items,              \* table items, in insertion order
    deduplication_records, \* table deduplication_records, in insertion order
    similarity_dedup_threshold, \* config: percent, 0 disables the similarity check
    ing,                \* per caller: position inside ingest_item / persist_item
    ing_log,            \* completed ingest_item / persist_item calls, in completion order
    analyses,           \* table analyses, in insertion order
    analysis_errors,    \* table analysis_errors: item_id -> attempt_count
    exposures,          \* table exposures, in insertion order
    exposure_errors,    \* table exposure_errors: analysis_id -> attempt_count
    pipeline_runs,      \* table pipeline_runs, in insertion order
    alerts,             \* messages handed to _send_alert, in order
    adapter_seen,       \* per adapter: how many upstream entries it has marked seen
    cycle,              \* pipeline cycles started
    run,                \* locals of the stage invocation in progress (or just ended)
    faults,             \* environment faults injected so far
    temporal_links,     \* table temporal_links (unique on the ordered pair)
    cluster_syntheses,  \* table cluster_syntheses, the set of its rows
    source_errors,      \* table source_errors: adapter_name -> consecutive_failures
    scan_order,         \* order in which the store returns the rows of an unordered query
    adapter_state,      \* table adapter_state: (adapter_name, feed_url) -> stored seen set
    fetch_log,          \* what the adapters' fetch calls have returned so far
    fn_call,            \* a call of a pure function: its arguments and its result
    thr                 \* per pipeline thread: its position inside run_pipeline

vars == <<now, next_uuid, items, deduplication_records, similarity_dedup_threshold,
          ing, ing_log, analyses, analysis_errors, exposures, exposure_errors,
          pipeline_runs, alerts, adapter_seen, cycle, run, faults, temporal_links,
          cluster_syntheses, source_errors, scan_order, adapter_state, fetch_log,
          fn_call, thr>>

\* the state of the orchestrator and of the tables only its stages write
stageVars == <<analyses, analysis_errors, exposures, exposure_errors, pipeline_runs,
               alerts, adapter_seen, cycle, run, faults, temporal_links,
               cluster_syntheses, source_errors, scan_order, adapter_state, fetch_log,
          fn_call, thr>>

\* locals of a stage function at entry.  calls, halted, fetched and failed record
\* what the invocation has done so far; alerts0 and runs0 are the numbers of alerts
\* sent and of run rows written before it began
StartRun(stage) ==
    [stage |-> stage, pos |-> "loop", batch |-> <<>>,
     found |-> 0, ok |-> 0, skipped |-> 0, errors |-> 0, error_msg |-> "",
     calls |-> <<>>, halted |-> FALSE, fetched |-> {}, failed |-> {},
     alerts0 |-> Len(alerts), runs0 |-> Len(pipeline_runs)]

NoRun == [StartRun("none") EXCEPT !.pos = "returned"]

ScanOrders == {"table", "reverse"}

\* the adapters whose fetch is followed call by call
FetchAdapters == {"hn", "rss"}

\* no fetch has returned yet.  ever: per adapter the source identities its fetch
\* calls have returned; adapter, returned: the last call; again: the identities
\* the last call returned that an earlier call of the adapter had returned
NoFetches ==
    [ever |-> [a \in FetchAdapters |-> {}], adapter |-> "none",
     returned |-> {}, again |-> {}]

\* no function has been called
NoCall == [fn |-> "none", args |-> <<>>, result |-> <<>>]

\* no thread runs run_pipeline step by step
NoThreads == <<>>

\* no pipeline cycle has run and none runs
NoPipeline ==
    /\ analyses = <<>>
    /\ analysis_errors = <<>>
    /\ exposures = <<>>
    /\ exposure_errors = <<>>
    /\ pipeline_runs = <<>>
    /\ alerts = <<>>
    /\ adapter_seen = <<>>
    /\ cycle = 0
    /\ run = NoRun
    /\ faults = 0
    /\ temporal_links = {}
    /\ cluster_syntheses = {}
    /\ source_errors = <<>>
    /\ scan_order = "table"
    /\ adapter_state = <<>>
    /\ fetch_log = NoFetches
    /\ fn_call = NoCall
    /\ thr = NoThreads

(***************************************************************************)
(* ingestion/dedup.py                                                      *)
(***************************************************************************)
Whitespace == {" ", "TAB", "LF"}

\* str.lower() on the alphabet used here
Lower(c) ==
    CASE c = "A" -> "a"
      [] c = "B" -> "b"
      [] c = "E" -> "e"
      [] c = "S" -> "s"
      [] OTHER -> c

\* unicodedata.normalize("NFC", text): canonical composition
RECURSIVE NFC(_)
NFC(t) ==
    IF Len(t) = 0 THEN <<>>
    ELSE IF Len(t) >= 2 /\ t[1] = "e" /\ t[2] = "COMB"
         THEN <<"e_acute">> \o NFC(SubSeq(t, 3, Len(t)))
    ELSE IF Len(t) >= 2 /\ t[1] = "E" /\ t[2] = "COMB"
         THEN <<"E_acute">> \o NFC(SubSeq(t, 3, Len(t)))
    ELSE <<t[1]>> \o NFC(Tail(t))

LowerChar(c) == IF c = "E_acute" THEN "e_acute" ELSE Lower(c)

LowerText(t) == [i \in 1..Len(t) |-> LowerChar(t[i])]

\* re.sub(r"\s+", " ", text)
RECURSIVE CollapseWs(_)
CollapseWs(t) ==
    IF Len(t) = 0 THEN <<>>
    ELSE IF t[1] \in Whitespace
         THEN IF Len(t) >= 2 /\ t[2] \in Whitespace
              THEN CollapseWs(Tail(t))
              ELSE <<" ">> \o CollapseWs(Tail(t))
    ELSE <<t[1]>> \o CollapseWs(Tail(t))

\* str.strip()
RECURSIVE LStrip(_)
LStrip(t) == IF Len(t) > 0 /\ t[1] \in Whitespace THEN LStrip(Tail(t)) ELSE t

RECURSIVE RStrip(_)
RStrip(t) ==
    IF Len(t) > 0 /\ t[Len(t)] \in Whitespace
    THEN RStrip(SubSeq(t, 1, Len(t) - 1))
    ELSE t

Strip(t) == LStrip(RStrip(t))

_normalize_text(text) == Strip(CollapseWs(LowerText(NFC(text))))

\* "\0".join(parts), then sha256(...).hexdigest() (injective)
compute_dedup_hash(title, source_name, content) ==
    _normalize_text(title) \o <<"NUL">> \o _normalize_text(source_name)
        \o <<"NUL">> \o _normalize_text(content)

ShingleSize == 4

\* a faulty shingle set: the empty text counts as one shingle
ShinglesKeepEmpty(text, n) ==
    LET normalized == _normalize_text(text) IN
    IF Len(normalized) < n THEN {normalized}
    ELSE {SubSeq(normalized, i, i + n - 1) : i \in 1..(Len(normalized) - n + 1)}

\* _shingles inside compute_title_shingle_similarity
_shingles(text, n) ==
    LET normalized == _normalize_text(text) IN
    IF Len(normalized) < n
    THEN IF Len(normalized) > 0 THEN {normalized} ELSE {}
    ELSE {SubSeq(normalized, i, i + n - 1) : i \in 1..(Len(normalized) - n + 1)}

\* the similarity as the pair (intersection, union); <<0, 1>> is the score 0.0
compute_title_shingle_similarity(title1, title2) ==
    LET s1 == _shingles(title1, ShingleSize)
        s2 == _shingles(title2, ShingleSize)
    IN IF s1 = {} \/ s2 = {} THEN <<0, 1>>
       ELSE <<Cardinality(s1 \cap s2), Cardinality(s1 \cup s2)>>

(***************************************************************************)
(* storage/schema.py: the constraints of table items                       *)
(***************************************************************************)
\* a faulty schema: dedup_hash declared without UNIQUE
ItemsConstraintIdOnly(its, row) == \A k \in 1..Len(its) : its[k].id # row.id

\* id TEXT PRIMARY KEY, dedup_hash TEXT NOT NULL UNIQUE
ItemsConstraintOk(its, row) ==
    \A k \in 1..Len(its) :
        its[k].id # row.id /\ its[k].dedup_hash # row.dedup_hash

(***************************************************************************)
(* ingestion/normalize.py                                                  *)
(***************************************************************************)
\* an ISO 8601 text "<local date and time><UTC offset>": published_at is stored as
\* the adapter gives it (RSS: parsedate_to_datetime(raw).isoformat(), in the
\* offset of the feed); datetime.now(timezone.utc).isoformat() has offset +00:00
IsoText(at, utc_offset) == [at |-> at, utc_offset |-> utc_offset]

\* texts are compared character by character: the local time first, then the
\* offset, where "+00:00" < "+02:00" < "-03:00" < "-05:00" ("+" sorts before "-")
OffsetRank(utc_offset) == IF utc_offset >= 0 THEN utc_offset ELSE 100 - utc_offset

\* a number that orders the texts as string comparison does
TextKey(text) == text.at * 200 + OffsetRank(text.utc_offset)

VALID_SOURCE_TYPES ==
    {"news", "filing", "transcript", "report", "research", "government",
     "policy", "industry", "other"}

\* the set of fields _validate_raw_item reports
_validate_raw_item(raw) ==
    (IF Strip(raw.title) = <<>> THEN {"title"} ELSE {})
    \cup (IF Strip(raw.source_name) = <<>> THEN {"source_name"} ELSE {})
    \cup (IF raw.source_type = "" \/ raw.source_type \notin VALID_SOURCE_TYPES
          THEN {"source_type"} ELSE {})
    \cup (IF Strip(raw.content) = <<>> THEN {"content"} ELSE {})
    \cup (IF raw.published_at.kind = "bad" THEN {"published_at"} ELSE {})

\* normalize(raw) for a raw item that passes validation; id is uuid4(), t the clock
normalize(raw, id, t) ==
    [id |-> id,
     title |-> raw.title,
     timestamp |-> IF raw.published_at.kind # "none"
                   THEN IsoText(raw.published_at.at, raw.published_at.utc_offset)
                   ELSE IsoText(t, 0),
     ingested_at |-> t,
     dedup_hash |-> compute_dedup_hash(raw.title, raw.source_name, raw.content)]

\* a faulty lookup: the exact-match SELECT never finds a row
SelectByHashNoMatch(its, h) == 0

\* SELECT id FROM items WHERE dedup_hash = ?  (fetchone)
SelectByHash(its, h) ==
    LET hits == {k \in 1..Len(its) : its[k].dedup_hash = h} IN
    IF hits = {} THEN 0
    ELSE its[CHOOSE k \in hits : \A j \in hits : k <= j].id

SimilarityLookback == 200

\* SELECT id, title FROM items WHERE ingested_at >= ? ORDER BY ingested_at DESC LIMIT 200
RECURSIVE OrderDesc(_, _)
OrderDesc(its, idx) ==
    IF idx = {} THEN <<>>
    ELSE LET top == CHOOSE k \in idx :
                        \A j \in idx : \/ its[k].ingested_at > its[j].ingested_at
                                        \/ (its[k].ingested_at = its[j].ingested_at /\ k >= j)
         IN <<its[top]>> \o OrderDesc(its, idx \ {top})

RecentRows(its, cutoff) ==
    LET all == OrderDesc(its, {k \in 1..Len(its) : its[k].ingested_at >= cutoff})
    IN SubSeq(all, 1, IF Len(all) < SimilarityLookback THEN Len(all) ELSE SimilarityLookback)

\* score >= similarity_threshold, the threshold given in percent
ScoreAtLeast(score, threshold) == score[1] * 100 >= threshold * score[2]

\* the id of the first recent row whose title is similar enough, or 0
SimilarMatch(its, title, threshold, cutoff) ==
    LET recent == RecentRows(its, cutoff)
        hits == {k \in 1..Len(recent) :
                    ScoreAtLeast(compute_title_shingle_similarity(title, recent[k].title),
                                 threshold)}
    IN IF hits = {} THEN 0
       ELSE recent[CHOOSE k \in hits : \A j \in hits : k <= j].id

\* a faulty ingest_item: the similarity scan runs whatever the threshold
IngestDecisionAlwaysScans(its, item, threshold, window_hours, t) ==
    LET existing == SelectByHash(its, item.dedup_hash) IN
    IF existing # 0 THEN [method |-> "hash_exact", canonical |-> existing]
    ELSE LET sim == SimilarMatch(its, item.title, threshold, t - window_hours)
         IN IF sim # 0 THEN [method |-> "content_similarity", canonical |-> sim]
            ELSE [method |-> "insert", canonical |-> 0]

\* the read half of ingest_item: which branch the call takes and the canonical id
IngestDecision(its, item, threshold, window_hours, t) ==
    LET existing == SelectByHash(its, item.dedup_hash) IN
    IF existing # 0 THEN [method |-> "hash_exact", canonical |-> existing]
    ELSE LET sim == IF threshold > 0
                    THEN SimilarMatch(its, item.title, threshold, t - window_hours)
                    ELSE 0
         IN IF sim # 0 THEN [method |-> "content_similarity", canonical |-> sim]
            ELSE [method |-> "insert", canonical |-> 0]

\* INSERT INTO deduplication_records (...)
DedupRecord(canonical_id, item_id, method) ==
    [canonical_item_id |-> canonical_id, duplicate_item_ids |-> <<item_id>>,
     method |-> method]

(***************************************************************************)
(* Callers of ingest_item and persist_item.  Each caller uses a connection *)
(* of its own; sqlite3 opens the write transaction at the first INSERT, so *)
(* another caller's commit may fall between the SELECT and the INSERT of   *)
(* ingest_item.                                                            *)
(***************************************************************************)
Callers == {1, 2}

MaxCalls == 3
MaxTicks == 1
TickHours == 72
DefaultWindowHours == 48

NoDate == [kind |-> "none", at |-> 0, utc_offset |-> 0]

RawA == [source_name |-> <<"s">>, source_type |-> "news",
         title |-> <<"A", "b", " ", "b", "a">>, content |-> <<"c">>,
         published_at |-> NoDate]
\* the same logical item as RawA: case and whitespace differ
RawA2 == [source_name |-> <<"S">>, source_type |-> "news",
          title |-> <<" ", "a", "b", "TAB", " ", "B", "a">>, content |-> <<"c", "LF">>,
          published_at |-> [kind |-> "iso", at |-> 0, utc_offset |-> 0]]
\* another item, with a title close to RawA's
RawB == [source_name |-> <<"s">>, source_type |-> "news",
         title |-> <<"a", "b", " ", "b", "b">>, content |-> <<"c">>,
         published_at |-> NoDate]
\* rejected by validation
RawBad == [source_name |-> <<"s">>, source_type |-> "blog",
           title |-> <<" ", " ">>, content |-> <<"c">>,
           published_at |-> [kind |-> "bad", at |-> 0, utc_offset |-> 0]]

\* a third item: its title shares half of its shingles with RawA's and half
\* with RawB's, while RawA's and RawB's titles share a third
RawC == [source_name |-> <<"s">>, source_type |-> "news",
         title |-> <<"a", "b", " ", "b">>, content |-> <<"c">>,
         published_at |-> NoDate]

RawPool == {RawA, RawA2, RawB, RawBad}
Thresholds == {0, 30}

Idle == [pc |-> "idle"]

LogEntry(op, h, id, status, dup_of, started) ==
    [op |-> op, h |-> h, id |-> id, status |-> status,
     duplicate_of |-> dup_of, started |-> started]

InitIngest ==
    /\ now = 0
    /\ next_uuid = 1
    /\ items = <<>>
    /\ deduplication_records = <<>>
    /\ ing = [c \in Callers |-> Idle]
    /\ ing_log = <<>>
    /\ similarity_dedup_threshold \in Thresholds
    /\ NoPipeline

CallsStarted == Len(ing_log) + Cardinality({c \in Callers : ing[c].pc # "idle"})

\* ingest_item up to its last read: normalize, the exact-match SELECT, the
\* similarity scan, and the deduplication record of a duplicate
IngestCheck(c, raw) ==
    /\ ing[c].pc = "idle"
    /\ CallsStarted < MaxCalls
    /\ IF _validate_raw_item(raw) # {}
       THEN \* normalize raises ValueError
            /\ ing_log' = Append(ing_log,
                    LogEntry("ingest", <<>>, 0, "invalid", 0, Len(ing_log)))
            /\ UNCHANGED <<now, next_uuid, items, deduplication_records, ing>>
       ELSE LET item == normalize(raw, next_uuid, now)
                d == IngestDecision(items, item, similarity_dedup_threshold,
                                     DefaultWindowHours, now)
            IN /\ next_uuid' = next_uuid + 1
               /\ IF d.method = "insert"
                  THEN /\ ing' = [ing EXCEPT ![c] =
                                    [pc |-> "insert", item |-> item,
                                     started |-> Len(ing_log)]]
                       /\ UNCHANGED <<deduplication_records, ing_log>>
                  ELSE /\ deduplication_records' =
                            Append(deduplication_records,
                                   DedupRecord(d.canonical, item.id, d.method))
                       /\ ing_log' = Append(ing_log,
                            LogEntry("ingest", item.dedup_hash, item.id,
                                     "duplicate", d.canonical, Len(ing_log)))
                       /\ UNCHANGED ing
               /\ UNCHANGED <<now, items>>
    /\ UNCHANGED similarity_dedup_threshold

\* INSERT INTO items: the row, or IntegrityError and rollback
InsertItem(its, row) == IF ItemsConstraintOk(its, row) THEN Append(its, row) ELSE its

\* the INSERT at the end of ingest_item
IngestInsert(c) ==
    /\ ing[c].pc = "insert"
    /\ items' = InsertItem(items, ing[c].item)
    /\ ing_log' = Append(ing_log,
            LogEntry("ingest", ing[c].item.dedup_hash, ing[c].item.id,
                     IF ItemsConstraintOk(items, ing[c].item) THEN "new" ELSE "raised",
                     0, ing[c].started))
    /\ ing' = [ing EXCEPT ![c] = Idle]
    /\ UNCHANGED <<now, next_uuid, deduplication_records, similarity_dedup_threshold>>

\* persist_item(normalize(raw)): one INSERT
PersistItem(c, raw) ==
    /\ ing[c].pc = "idle"
    /\ CallsStarted < MaxCalls
    /\ _validate_raw_item(raw) = {}
    /\ LET item == normalize(raw, next_uuid, now) IN
       /\ next_uuid' = next_uuid + 1
       /\ items' = InsertItem(items, item)
       /\ ing_log' = Append(ing_log,
               LogEntry("persist", item.dedup_hash, item.id,
                        IF ItemsConstraintOk(items, item) THEN "new" ELSE "raised",
                        0, Len(ing_log)))
    /\ UNCHANGED <<now, deduplication_records, ing, similarity_dedup_threshold>>

Tick ==
    /\ now < MaxTicks * TickHours
    /\ now' = now + TickHours
    /\ UNCHANGED <<next_uuid, items, deduplication_records, ing, ing_log,
                   similarity_dedup_threshold>>

\* callers of the ingestion functions alone, no pipeline stage running
NextIngest ==
    \/ \E c \in Callers, raw \in RawPool : IngestCheck(c, raw) /\ UNCHANGED stageVars
    \/ \E c \in Callers : IngestInsert(c) /\ UNCHANGED stageVars
    \/ \E c \in Callers, raw \in RawPool : PersistItem(c, raw) /\ UNCHANGED stageVars
    \/ Tick /\ UNCHANGED stageVars

SpecIngest == InitIngest /\ [][NextIngest]_vars

(***************************************************************************)
(* jobs.py: the orchestrator.  One thread runs run_pipeline; a stage is a  *)
(* sequence of steps: its backlog query, one step per subject, and the     *)
(* run record.  The environment decides the answer of every external call  *)
(* and may make a store connection of a stage fail; MaxFaults bounds the   *)
(* number of such faults in one behaviour.                                 *)
(***************************************************************************)
MaxCycles == 2
MaxFaults == 1

_MAX_CLASSIFICATION_ATTEMPTS == 3
_MAX_EXPOSURE_ATTEMPTS == 3
_TEMPORAL_LINK_WINDOW_DAYS == 90
HoursPerDay == 24
exposure_max_per_run == 2

\* run_pipeline: the stages in call order
Stages == <<"ingestion", "analysis", "exposure", "temporal_linking", "cluster_synthesis">>

\* run_pipeline calls a stage when the one before it has returned; a cycle starts
\* when the previous cycle has returned or has been ended by an exception
CanStart(stage) ==
    IF stage = "ingestion"
    THEN /\ cycle < MaxCycles
         /\ \/ run.stage \in {"none", "cluster_synthesis"} /\ run.pos = "returned"
            \/ run.pos = "raised"
    ELSE /\ run.pos = "returned"
         /\ \E k \in 1..(Len(Stages) - 1) : Stages[k] = run.stage /\ Stages[k + 1] = stage

\* the except clause around a stage body: log, set error_msg, _send_alert
TopLevelFailure(r, msg) ==
    [r EXCEPT !.pos = "record", !.batch = <<>>, !.error_msg = msg]

AlertText(stage) == <<stage, "pipeline failed">>

\* a faulty alert path: the message is dropped
SkipAlert(sent, stage) == sent

\* _send_alert: one message to the notification channel; it never raises
_send_alert(sent, stage) == Append(sent, AlertText(stage))

\* a faulty upsert: INSERT OR REPLACE, which starts the count again at 1
UpsertErrorReset(errs, subject) ==
    IF subject \in DOMAIN errs
    THEN [errs EXCEPT ![subject] = 1]
    ELSE errs @@ (subject :> 1)

\* ON CONFLICT(...) DO UPDATE SET attempt_count = attempt_count + 1
UpsertError(errs, subject) ==
    IF subject \in DOMAIN errs
    THEN [errs EXCEPT ![subject] = @ + 1]
    ELSE errs @@ (subject :> 1)

_record_analysis_error(errs, item_id) == UpsertError(errs, item_id)

_record_exposure_error(errs, analysis_id) == UpsertError(errs, analysis_id)

\* attempt_count of the LEFT JOINed error row; 0 stands for NULL
AttemptCount(errs, subject) == IF subject \in DOMAIN errs THEN errs[subject] ELSE 0

\* ORDER BY <key> ASC over the rows idx of a table; ties keep insertion order
RECURSIVE OrderAsc(_, _)
OrderAsc(key, idx) ==
    IF idx = {} THEN <<>>
    ELSE LET first == CHOOSE k \in idx :
                          \A j \in idx : key[k] < key[j] \/ (key[k] = key[j] /\ k <= j)
         IN <<first>> \o OrderAsc(key, idx \ {first})

HasAnalysis(ans, item_id) == \E a \in 1..Len(ans) : ans[a].item_id = item_id

HasExposure(exps, analysis_id) == \E e \in 1..Len(exps) : exps[e].analysis_id = analysis_id

\* a faulty backlog query: the attempt_count condition left out
AnalysisPendingNoCap(ans, errs, item_id) == ~HasAnalysis(ans, item_id)

\* WHERE a.id IS NULL AND (ae.attempt_count IS NULL OR ae.attempt_count < ?)
AnalysisPending(ans, errs, item_id) ==
    /\ ~HasAnalysis(ans, item_id)
    /\ AttemptCount(errs, item_id) < _MAX_CLASSIFICATION_ATTEMPTS

\* run_analysis: the backlog query; the result is the list of item ids
AnalysisBacklog(its, ans, errs) ==
    LET idx == {k \in 1..Len(its) : AnalysisPending(ans, errs, its[k].id)}
        order == OrderAsc([k \in 1..Len(its) |-> its[k].ingested_at], idx)
    IN [n \in 1..Len(order) |-> its[order[n]].id]

\* a faulty backlog query: the condition e.id IS NULL left out
ExposurePendingAny(exps, errs, analysis) ==
    /\ analysis.eligible_for_exposure_mapping
    /\ AttemptCount(errs, analysis.id) < _MAX_EXPOSURE_ATTEMPTS

\* WHERE a.eligible_for_exposure_mapping = 1 AND e.id IS NULL
\* AND (ee.attempt_count IS NULL OR ee.attempt_count < ?)
ExposurePending(exps, errs, analysis) ==
    /\ analysis.eligible_for_exposure_mapping
    /\ ~HasExposure(exps, analysis.id)
    /\ AttemptCount(errs, analysis.id) < _MAX_EXPOSURE_ATTEMPTS

\* a faulty query: no LIMIT clause
Unlimited(rows, limit) == rows

\* LIMIT ?
Limit(rows, limit) == SubSeq(rows, 1, IF Len(rows) < limit THEN Len(rows) ELSE limit)

\* run_exposure_mapping: the backlog query; the result is the list of analysis ids
ExposureBacklog(its, ans, exps, errs, limit) ==
    LET idx == {a \in 1..Len(ans) :
                   /\ \E k \in 1..Len(its) : its[k].id = ans[a].item_id
                   /\ ExposurePending(exps, errs, ans[a])}
        order == OrderAsc([a \in 1..Len(ans) |-> ans[a].analyzed_at], idx)
    IN Limit([m \in 1..Len(order) |-> ans[order[m]].id], limit)

(***************************************************************************)
(* External services, as the environment answers them                      *)
(***************************************************************************)
\* what a validated classification carries on
ClassifyOutputs == {[change_type |-> "reinforcing", importance |-> "high"]}

\* what a validated exposure mapping carries on
MapOutputs ==
    {[tickers |-> <<"T1", "T2">>, skipped |-> FALSE],
     [tickers |-> <<>>, skipped |-> TRUE]}

\* error codes of AnalysisResult.error, ExposureResult.error, SynthesisResult.error
TransientCode == "api_error"
AnalysisErrorCodes == {"api_error", "parse_error", "classification_uncertain"}
ExposureErrorCodes == {"api_error", "parse_error", "mapping_uncertain"}
SynthesisErrorCodes == {"api_error", "parse_error", "empty_synthesis"}

\* how a stage tells the codes apart
OutcomeKind(code) == IF code = TransientCode THEN "transient" ELSE "item_error"

\* one call to an external service, as the stage saw it: the subject, the outcome,
\* the subject's attempt_count before and after the stage handled the outcome, the
\* subjects of the batch still to come, and whether the subject had a result already
CallRec(subject, outcome, before, after, remaining, had_result) ==
    [subject |-> subject, outcome |-> outcome, before |-> before, after |-> after,
     remaining |-> remaining, had_result |-> had_result]

(***************************************************************************)
(* _record_run and the end of a stage function                             *)
(***************************************************************************)
\* the row: run_type, started_at, status, error, and of the result the new-item
\* count of an ingestion run (total_new)
RunRow(r) ==
    [run_type |-> r.stage,
     started_at |-> now,
     status |-> IF r.error_msg # "" THEN "error" ELSE "success",
     items_new |-> IF r.stage = "ingestion" THEN r.ok ELSE 0,
     error |-> r.error_msg]

\* _record_run(...): the INSERT, or the connection fails and the exception leaves
\* the stage function and run_pipeline
RecordRun ==
    /\ run.pos = "record"
    /\ \/ /\ pipeline_runs' = Append(pipeline_runs, RunRow(run))
          /\ run' = [run EXCEPT !.pos = "returned"]
          /\ UNCHANGED faults
       \/ /\ faults < MaxFaults
          /\ faults' = faults + 1
          /\ run' = [run EXCEPT !.pos = "raised"]
          /\ UNCHANGED pipeline_runs
    /\ UNCHANGED <<now, next_uuid, items, deduplication_records,
                   similarity_dedup_threshold, ing, ing_log, source_errors, scan_order,
                   adapter_state, fetch_log, fn_call, thr,
                   analyses, analysis_errors,
                   exposures, exposure_errors, alerts, adapter_seen, cycle,
                   temporal_links, cluster_syntheses>>

\* the loop's position after one subject: the next subject, or the run record
Advance(r, stop) ==
    LET rest == Tail(r.batch) IN
    [r EXCEPT !.batch = IF stop THEN <<>> ELSE rest,
              !.pos = IF stop \/ Len(rest) = 0 THEN "record" ELSE "loop"]

(***************************************************************************)
(* run_ingestion                                                           *)
(***************************************************************************)
\* ingestion/__init__.py: the adapter types registered at import
Registry == {"rss", "hn", "reddit", "github"}

\* the sources file: adapter entries in file order
SourcesConfig ==
    <<[type |-> "podcast", enabled |-> TRUE],
      [type |-> "hn", enabled |-> TRUE],
      [type |-> "github", enabled |-> FALSE],
      [type |-> "rss", enabled |-> TRUE]>>

\* what each source has published; an adapter returns the entries it has not
\* marked seen
Upstream == [hn |-> <<RawB>>, rss |-> <<RawA, RawA2, RawBad, RawC>>]

\* HackerNewsAdapter.fetch reads and writes its seen set through the store outside
\* any try; RSSAdapter.fetch catches every exception of a feed
FetchMayRaise(type) == type = "hn"

\* ingest_item from its first write on: the deduplication record of a duplicate,
\* or the INSERT of the item
IngestWrite(st, item, d) ==
    IF d.method = "insert"
    THEN IF ItemsConstraintOk(st.items, item)
         THEN [st EXCEPT !.items = InsertItem(@, item), !.new = @ + 1]
         ELSE [st EXCEPT !.raised = TRUE]
    ELSE [st EXCEPT !.records = Append(@, DedupRecord(d.canonical, item.id, d.method)),
                    !.dup = @ + 1]

\* ingest_item after normalize: the reads, then the write
IngestNormalized(st, item, threshold, t) ==
    IngestWrite([st EXCEPT !.next_uuid = @ + 1], item,
                IngestDecision(st.items, item, threshold, DefaultWindowHours, t))

\* ingest_item(raw) inside the loop of run_ingestion, no other writer at work:
\* the tables after the call, the counters, and whether the call raised
IngestOne(st, raw, threshold, t) ==
    IF _validate_raw_item(raw) # {}
    THEN [st EXCEPT !.raised = TRUE]
    ELSE IngestNormalized(st, normalize(raw, st.next_uuid, t), threshold, t)

\* the for loop over raw_items: ingest_item on each, until one raises
RECURSIVE IngestAll(_, _, _, _)
IngestAll(st, raws, threshold, t) ==
    IF raws = <<>> \/ st.raised THEN st
    ELSE IngestAll(IngestOne(st, Head(raws), threshold, t), Tail(raws), threshold, t)

\* run_pipeline enters run_ingestion: the sources file is read
IngestionStart ==
    /\ CanStart("ingestion")
    /\ cycle' = cycle + 1
    /\ now' = now + 1
    /\ run' = [StartRun("ingestion") EXCEPT !.batch = SourcesConfig]
    /\ UNCHANGED <<next_uuid, items, deduplication_records, similarity_dedup_threshold,
                   ing, ing_log, source_errors, scan_order,
                   adapter_state, fetch_log, fn_call, thr,
                   analyses, analysis_errors, exposures, exposure_errors,
                   pipeline_runs, alerts, adapter_seen, faults, temporal_links,
                   cluster_syntheses>>

\* registry.py: _REGISTRY.get(type_name)
get_adapter_class(type_name) == IF type_name \in Registry THEN type_name ELSE "None"

\* a faulty loop: an entry that cannot be used ends the run as a failure
FailOnSkip(r) == TopLevelFailure(r, "Ingestion failed")

\* continue: the next adapter entry
SkipEntry(r) == Advance(r, FALSE)

\* one pass of the loop over the adapter entries: skip, or fetch and ingest
IngestionStep ==
    /\ run.stage = "ingestion" /\ run.pos = "loop"
    /\ LET entry == Head(run.batch) IN
       IF get_adapter_class(entry.type) = "None" \/ ~entry.enabled
       THEN /\ run' = SkipEntry(run)
            /\ UNCHANGED <<next_uuid, items, deduplication_records, alerts,
                           adapter_seen, faults>>
       ELSE \/ \* adapter.fetch() raises: the except clause of run_ingestion
               /\ FetchMayRaise(entry.type)
               /\ faults < MaxFaults
               /\ faults' = faults + 1
               /\ run' = TopLevelFailure([run EXCEPT !.failed = @ \cup {entry.type}],
                                         "Ingestion failed")
               /\ alerts' = _send_alert(alerts, "ingestion")
               /\ UNCHANGED <<next_uuid, items, deduplication_records, adapter_seen>>
            \/ \E st \in {IngestAll([items |-> items,
                                     records |-> deduplication_records,
                                     next_uuid |-> next_uuid, new |-> 0, dup |-> 0,
                                     raised |-> FALSE],
                                    SubSeq(Upstream[entry.type],
                                           adapter_seen[entry.type] + 1,
                                           Len(Upstream[entry.type])),
                                    similarity_dedup_threshold, now)} :
                 /\ adapter_seen' = [adapter_seen EXCEPT
                                        ![entry.type] = Len(Upstream[entry.type])]
                 /\ items' = st.items
                 /\ deduplication_records' = st.records
                 /\ next_uuid' = st.next_uuid
                 /\ run' = IF st.raised
                           THEN TopLevelFailure(
                                    [run EXCEPT !.fetched = @ \cup {entry.type},
                                                !.ok = @ + st.new,
                                                !.skipped = @ + st.dup],
                                    "Ingestion failed")
                           ELSE Advance(
                                    [run EXCEPT !.fetched = @ \cup {entry.type},
                                                !.ok = @ + st.new,
                                                !.skipped = @ + st.dup],
                                    FALSE)
                 /\ alerts' = IF st.raised THEN _send_alert(alerts, "ingestion")
                              ELSE alerts
                 /\ UNCHANGED faults
    /\ UNCHANGED <<now, similarity_dedup_threshold, ing, ing_log, source_errors, scan_order,
                   adapter_state, fetch_log, fn_call, thr,
                   analyses,
                   analysis_errors, exposures, exposure_errors, pipeline_runs, cycle,
                   temporal_links, cluster_syntheses>>

(***************************************************************************)
(* run_analysis                                                            *)
(***************************************************************************)
\* the backlog query, or the connection fails (top-level failure)
AnalysisStart ==
    /\ CanStart("analysis")
    /\ \/ /\ LET rows == AnalysisBacklog(items, analyses, analysis_errors) IN
             run' = [StartRun("analysis") EXCEPT
                        !.batch = rows, !.found = Len(rows),
                        !.pos = IF Len(rows) = 0 THEN "record" ELSE "loop"]
          /\ UNCHANGED <<faults, alerts>>
       \/ /\ faults < MaxFaults
          /\ faults' = faults + 1
          /\ run' = TopLevelFailure(StartRun("analysis"), "Analysis failed")
          /\ alerts' = _send_alert(alerts, "analysis")
    /\ UNCHANGED <<now, next_uuid, items, deduplication_records,
                   similarity_dedup_threshold, ing, ing_log, source_errors, scan_order,
                   adapter_state, fetch_log, fn_call, thr,
                   analyses, analysis_errors,
                   exposures, exposure_errors, pipeline_runs, adapter_seen, cycle,
                   temporal_links, cluster_syntheses>>

\* _persist_analysis: eligible_for_exposure_mapping is not among the columns written
\* and takes the column default 0
AnalysisRow(id, item_id, out, t) ==
    [id |-> id, item_id |-> item_id, change_type |-> out.change_type,
     importance |-> out.importance, analyzed_at |-> t,
     eligible_for_exposure_mapping |-> FALSE]

\* a faulty error branch: every code is recorded, the transient one too
AnalysisOnErrorAlways(errs, item_id, code) == _record_analysis_error(errs, item_id)

\* the branch of run_analysis for a result with result.error set
AnalysisOnError(errs, item_id, code) ==
    IF code # TransientCode THEN _record_analysis_error(errs, item_id) ELSE errs

\* a faulty loop: no break
NeverHalts(code) == FALSE

\* break after the transient code
HaltsBatch(code) == code = TransientCode

\* a faulty handler: the exception ends the loop
ExceptBreaks(r) == Advance(r, TRUE)

\* the except clause of the loop body ends the pass; the for loop goes on
ExceptContinues(r) == Advance(r, FALSE)

\* one pass of the for loop: classify_item on the next item
AnalysisStep ==
    /\ run.stage = "analysis" /\ run.pos = "loop"
    /\ LET item_id == Head(run.batch)
           before == AttemptCount(analysis_errors, item_id)
           rest == Len(run.batch) - 1
           had == HasAnalysis(analyses, item_id)
       IN \/ \E out \in ClassifyOutputs :
                /\ analyses' = Append(analyses, AnalysisRow(next_uuid, item_id, out, now))
                /\ next_uuid' = next_uuid + 1
                /\ run' = Advance([run EXCEPT
                              !.ok = @ + 1,
                              !.calls = Append(@, CallRec(item_id, "ok", before, before,
                                                          rest, had))], FALSE)
                /\ UNCHANGED <<analysis_errors, faults>>
          \/ \E code \in AnalysisErrorCodes :
                /\ faults < MaxFaults
                /\ faults' = faults + 1
                /\ analysis_errors' = AnalysisOnError(analysis_errors, item_id, code)
                /\ run' = Advance([run EXCEPT
                              !.errors = @ + 1,
                              !.halted = @ \/ HaltsBatch(code),
                              !.calls = Append(@, CallRec(item_id, OutcomeKind(code), before,
                                            AttemptCount(analysis_errors', item_id),
                                            rest, had))], HaltsBatch(code))
                /\ UNCHANGED <<analyses, next_uuid>>
          \/ \* classify_item raises: the except clause of the loop body
             /\ faults < MaxFaults
             /\ faults' = faults + 1
             /\ analysis_errors' = _record_analysis_error(analysis_errors, item_id)
             /\ run' = ExceptContinues([run EXCEPT
                           !.errors = @ + 1,
                           !.calls = Append(@, CallRec(item_id, "exception", before,
                                         AttemptCount(analysis_errors', item_id),
                                         rest, had))])
             /\ UNCHANGED <<analyses, next_uuid>>
    /\ UNCHANGED <<now, items, deduplication_records, similarity_dedup_threshold, ing,
                   ing_log, source_errors, scan_order,
                   adapter_state, fetch_log, fn_call, thr,
                   exposures, exposure_errors, pipeline_runs, alerts,
                   adapter_seen, cycle, temporal_links, cluster_syntheses>>

(***************************************************************************)
(* run_exposure_mapping                                                    *)
(***************************************************************************)
ExposureStart ==
    /\ CanStart("exposure")
    /\ \/ /\ LET rows == ExposureBacklog(items, analyses, exposures, exposure_errors,
                                          exposure_max_per_run) IN
             run' = [StartRun("exposure") EXCEPT
                        !.batch = rows, !.found = Len(rows),
                        !.pos = IF Len(rows) = 0 THEN "record" ELSE "loop"]
          /\ UNCHANGED <<faults, alerts>>
       \/ /\ faults < MaxFaults
          /\ faults' = faults + 1
          /\ run' = TopLevelFailure(StartRun("exposure"), "Exposure mapping failed")
          /\ alerts' = _send_alert(alerts, "exposure")
    /\ UNCHANGED <<now, next_uuid, items, deduplication_records,
                   similarity_dedup_threshold, ing, ing_log, source_errors, scan_order,
                   adapter_state, fetch_log, fn_call, thr,
                   analyses, analysis_errors,
                   exposures, exposure_errors, pipeline_runs, adapter_seen, cycle,
                   temporal_links, cluster_syntheses>>

\* _persist_exposure
ExposureRow(id, analysis_id, out) ==
    [id |-> id, analysis_id |-> analysis_id, tickers |-> out.tickers,
     skipped |-> out.skipped]

\* the branch of run_exposure_mapping for a result with result.error set
ExposureOnError(errs, analysis_id, code) ==
    IF code # TransientCode THEN _record_exposure_error(errs, analysis_id) ELSE errs

\* one pass of the for loop: map_exposures on the next analysis
ExposureStep ==
    /\ run.stage = "exposure" /\ run.pos = "loop"
    /\ LET analysis_id == Head(run.batch)
           before == AttemptCount(exposure_errors, analysis_id)
           rest == Len(run.batch) - 1
           had == HasExposure(exposures, analysis_id)
       IN \/ \E out \in MapOutputs :
                /\ exposures' = Append(exposures, ExposureRow(next_uuid, analysis_id, out))
                /\ next_uuid' = next_uuid + 1
                /\ LET called == [run EXCEPT !.calls =
                                     Append(@, CallRec(analysis_id, "ok", before, before,
                                                       rest, had))]
                   IN run' = Advance(IF out.skipped
                                     THEN [called EXCEPT !.skipped = @ + 1]
                                     ELSE [called EXCEPT !.ok = @ + 1], FALSE)
                /\ UNCHANGED <<exposure_errors, faults>>
          \/ \E code \in ExposureErrorCodes :
                /\ faults < MaxFaults
                /\ faults' = faults + 1
                /\ exposure_errors' = ExposureOnError(exposure_errors, analysis_id, code)
                /\ run' = Advance([run EXCEPT
                              !.errors = @ + 1,
                              !.halted = @ \/ HaltsBatch(code),
                              !.calls = Append(@, CallRec(analysis_id, OutcomeKind(code), before,
                                            AttemptCount(exposure_errors', analysis_id),
                                            rest, had))], HaltsBatch(code))
                /\ UNCHANGED <<exposures, next_uuid>>
          \/ \* map_exposures raises: the except clause of the loop body
             /\ faults < MaxFaults
             /\ faults' = faults + 1
             /\ exposure_errors' = _record_exposure_error(exposure_errors, analysis_id)
             /\ run' = ExceptContinues([run EXCEPT
                           !.errors = @ + 1,
                           !.calls = Append(@, CallRec(analysis_id, "exception", before,
                                         AttemptCount(exposure_errors', analysis_id),
                                         rest, had))])
             /\ UNCHANGED <<exposures, next_uuid>>
    /\ UNCHANGED <<now, items, deduplication_records, similarity_dedup_threshold, ing,
                   ing_log, source_errors, scan_order,
                   adapter_state, fetch_log, fn_call, thr,
                   analyses, analysis_errors, pipeline_runs, alerts,
                   adapter_seen, cycle, temporal_links, cluster_syntheses>>

(***************************************************************************)
(* run_temporal_linking                                                    *)
(***************************************************************************)
RECURSIVE Concat(_, _)
Concat(parts, n) == IF n = 0 THEN <<>> ELSE Concat(parts, n - 1) \o parts[n]

Reverse(seq) == [n \in 1..Len(seq) |-> seq[Len(seq) + 1 - n]]

\* items JOIN analyses JOIN exposures JOIN json_each(exposures) WHERE skipped_reason
\* IS NULL AND ticker IS NOT NULL AND timestamp >= cutoff: one row per ticker entry
TickerRows(its, ans, exps, cutoff) ==
    Concat([k \in 1..Len(its) |->
        IF TextKey(its[k].timestamp) < TextKey(cutoff) THEN <<>>
        ELSE Concat([a \in 1..Len(ans) |->
            IF ans[a].item_id # its[k].id THEN <<>>
            ELSE Concat([e \in 1..Len(exps) |->
                IF exps[e].analysis_id # ans[a].id \/ exps[e].skipped THEN <<>>
                ELSE [t \in 1..Len(exps[e].tickers) |->
                         [item_id |-> its[k].id, timestamp |-> its[k].timestamp,
                          change_type |-> ans[a].change_type,
                          ticker |-> exps[e].tickers[t]]]],
                Len(exps))],
            Len(ans))],
        Len(its))

\* the query has no ORDER BY: the rows come in table order or in the opposite
\* order, as the store's query plan decides; the plan of a query does not change
\* while the process runs
RowsReturned(rows, order) == IF order = "table" THEN rows ELSE Reverse(rows)

\* cutoff: (now - 90 days).isoformat()
WindowCutoff(t) == IsoText(t - _TEMPORAL_LINK_WINDOW_DAYS * HoursPerDay, 0)

\* ticker_items[ticker], in row order
TickerGroup(rows, ticker) == SelectSeq(rows, LAMBDA r : r.ticker = ticker)

\* sorted(items, key=timestamp, reverse=True): stable
SortedNewestFirst(group) ==
    LET order == OrderAsc([n \in 1..Len(group) |-> 0 - TextKey(group[n].timestamp)],
                          1..Len(group))
    IN [n \in 1..Len(order) |-> group[order[n]]]

\* a faulty type rule: a contradiction is seen in one order only
LinkTypeOneWay(newer_change_type, older_change_type) ==
    IF newer_change_type = older_change_type THEN "reinforces"
    ELSE IF newer_change_type = "reinforcing" /\ older_change_type = "friction"
         THEN "contradicts"
         ELSE "extends"

_determine_link_type(newer_change_type, older_change_type) ==
    IF newer_change_type = older_change_type THEN "reinforces"
    ELSE IF {newer_change_type, older_change_type} = {"reinforcing", "friction"}
         THEN "contradicts"
         ELSE "extends"

\* the (newer, older) pairs of one ticker's rows, sorted newest first
GroupPairs(sorted, ticker) ==
    {[newer |-> sorted[p[1]], older |-> sorted[p[2]], ticker |-> ticker] :
        p \in {q \in (1..Len(sorted)) \X (1..Len(sorted)) : q[1] < q[2]}}

\* the pairs of every ticker with two or more rows
TickerPairs(rows) ==
    UNION {GroupPairs(SortedNewestFirst(TickerGroup(rows, tk)), tk) :
              tk \in {rows[n].ticker : n \in 1..Len(rows)}}

\* one row of pair_data: the tickers the pair shares and the link type
PairRow(all, key, created_at) ==
    [source_item_id |-> key[1], target_item_id |-> key[2],
     created_at |-> created_at,
     tickers |-> {p.ticker : p \in {q \in all : /\ q.newer.item_id = key[1]
                                                /\ q.older.item_id = key[2]}},
     link_type |-> LET p == CHOOSE q \in all : /\ q.newer.item_id = key[1]
                                               /\ q.older.item_id = key[2]
                   IN _determine_link_type(p.newer.change_type, p.older.change_type)]

\* pair_data: one entry per (newer, older) key; created_at is the time of the run
PairData(rows, created_at) ==
    {PairRow(TickerPairs(rows), key, created_at) :
        key \in {<<p.newer.item_id, p.older.item_id>> : p \in TickerPairs(rows)}}

\* a faulty insert: no conflict clause and no unique index on the pair
InsertAllLinks(links, pairs) == links \cup pairs

\* INSERT OR IGNORE INTO temporal_links: the unique index on the ordered pair
InsertOrIgnoreLinks(links, pairs) ==
    links \cup {p \in pairs :
                   ~\E l \in links : /\ l.source_item_id = p.source_item_id
                                     /\ l.target_item_id = p.target_item_id}

\* the whole stage body: the read, the pairing, and the writes of one connection
TemporalLinking ==
    /\ CanStart("temporal_linking")
    /\ \/ \E rows \in {RowsReturned(TickerRows(items, analyses, exposures,
                                               WindowCutoff(now)), scan_order)} :
             \E pairs \in {PairData(rows, now)} :
                /\ temporal_links' = InsertOrIgnoreLinks(temporal_links, pairs)
                /\ run' = [StartRun("temporal_linking") EXCEPT
                              !.pos = "record", !.found = Cardinality(pairs),
                              !.ok = Cardinality(temporal_links')
                                        - Cardinality(temporal_links)]
                /\ UNCHANGED <<faults, alerts>>
       \/ \* a connection fails: nothing is committed
          /\ faults < MaxFaults
          /\ faults' = faults + 1
          /\ run' = TopLevelFailure(StartRun("temporal_linking"), "Temporal linking failed")
          /\ alerts' = _send_alert(alerts, "temporal_linking")
          /\ UNCHANGED temporal_links
    /\ UNCHANGED <<now, next_uuid, items, deduplication_records,
                   similarity_dedup_threshold, ing, ing_log, source_errors, scan_order,
                   adapter_state, fetch_log, fn_call, thr,
                   analyses, analysis_errors,
                   exposures, exposure_errors, pipeline_runs, adapter_seen, cycle,
                   cluster_syntheses>>

(***************************************************************************)
(* run_cluster_synthesis                                                   *)
(***************************************************************************)
\* the tickers of the rows in order of first appearance (dict insertion order)
RECURSIVE TickerOrder(_)
TickerOrder(rows) ==
    IF rows = <<>> THEN <<>>
    ELSE LET init == TickerOrder(SubSeq(rows, 1, Len(rows) - 1))
             tk == rows[Len(rows)].ticker
         IN IF \E n \in 1..Len(init) : init[n] = tk THEN init ELSE Append(init, tk)

\* sorted(ticker_items[ticker]): the distinct item ids of a ticker, ascending
ClusterItemIds(rows, ticker) ==
    LET ids == {rows[n].item_id : n \in {m \in 1..Len(rows) : rows[m].ticker = ticker}}
    IN OrderAsc([id \in ids |-> id], ids)

\* the clusters the loop works on: tickers with two or more items
Clusters(rows) ==
    LET all == [n \in 1..Len(TickerOrder(rows)) |->
                   [ticker |-> TickerOrder(rows)[n],
                    item_ids |-> ClusterItemIds(rows, TickerOrder(rows)[n])]]
    IN SelectSeq(all, LAMBDA c : Len(c.item_ids) >= 2)

\* a faulty comparison: no cluster is ever taken as unchanged
NeverUnchanged(syntheses, cluster) == FALSE

\* existing.get(ticker) == item_ids_json, existing the dict built from the rows
Unchanged(syntheses, cluster) ==
    \E r \in syntheses : r.ticker = cluster.ticker /\ r.item_ids = cluster.item_ids

\* the values of the INSERT: ticker, item_ids_json, len(item_ids), now
SynthesisRow(cluster, t) ==
    [ticker |-> cluster.ticker, item_ids |-> cluster.item_ids,
     item_count |-> Len(cluster.item_ids), synthesized_at |-> t]

\* a faulty statement: INSERT with no ON CONFLICT clause, on a table whose
\* ticker column is not UNIQUE
InsertSynthesis(syntheses, cluster, t) == syntheses \cup {SynthesisRow(cluster, t)}

\* INSERT INTO cluster_syntheses ... ON CONFLICT(ticker) DO UPDATE SET item_ids,
\* item_count, synthesis, synthesized_at, synthesis_version
UpsertSynthesis(syntheses, cluster, t) ==
    IF \E r \in syntheses : r.ticker = cluster.ticker
    THEN {IF r.ticker = cluster.ticker THEN SynthesisRow(cluster, t) ELSE r :
             r \in syntheses}
    ELSE syntheses \cup {SynthesisRow(cluster, t)}

\* the two reads before the loop, or a connection fails (top-level failure)
ClusterStart ==
    /\ CanStart("cluster_synthesis")
    /\ \/ \E rows \in {RowsReturned(TickerRows(items, analyses, exposures,
                                               WindowCutoff(now)), scan_order)} :
             /\ run' = [StartRun("cluster_synthesis") EXCEPT
                           !.batch = Clusters(rows), !.found = Len(Clusters(rows)),
                           !.pos = IF Len(Clusters(rows)) = 0 THEN "record" ELSE "loop"]
             /\ UNCHANGED <<faults, alerts>>
       \/ /\ faults < MaxFaults
          /\ faults' = faults + 1
          /\ run' = TopLevelFailure(StartRun("cluster_synthesis"),
                                    "Cluster synthesis failed")
          /\ alerts' = _send_alert(alerts, "cluster_synthesis")
    /\ UNCHANGED <<now, next_uuid, items, deduplication_records,
                   similarity_dedup_threshold, ing, ing_log, source_errors, scan_order,
                   adapter_state, fetch_log, fn_call, thr,
                   analyses, analysis_errors,
                   exposures, exposure_errors, pipeline_runs, adapter_seen, cycle,
                   temporal_links, cluster_syntheses>>

\* one pass of the loop over the clusters; inside one invocation the table holds
\* what the dict existing held at the start, but for the tickers already passed
ClusterStep ==
    /\ run.stage = "cluster_synthesis" /\ run.pos = "loop"
    /\ LET cluster == Head(run.batch)
           rest == Len(run.batch) - 1
           call(outcome) == CallRec(cluster.ticker, outcome, 0, 0, rest, FALSE)
       IN IF Unchanged(cluster_syntheses, cluster)
          THEN /\ run' = Advance([run EXCEPT !.skipped = @ + 1], FALSE)
               /\ UNCHANGED <<cluster_syntheses, faults, alerts>>
          ELSE \/ \* synthesize_cluster returns a synthesis and the upsert commits
                  /\ cluster_syntheses' = UpsertSynthesis(cluster_syntheses, cluster, now)
                  /\ run' = Advance([run EXCEPT !.ok = @ + 1,
                                                !.calls = Append(@, call("ok"))], FALSE)
                  /\ UNCHANGED <<faults, alerts>>
               \/ \E code \in SynthesisErrorCodes :
                     /\ faults < MaxFaults
                     /\ faults' = faults + 1
                     /\ run' = Advance([run EXCEPT
                                   !.errors = @ + 1,
                                   !.halted = @ \/ HaltsBatch(code),
                                   !.calls = Append(@, call(OutcomeKind(code)))], HaltsBatch(code))
                     /\ UNCHANGED <<cluster_syntheses, alerts>>
               \/ \* synthesize_cluster raises: the inner except clause
                  /\ faults < MaxFaults
                  /\ faults' = faults + 1
                  /\ run' = Advance([run EXCEPT !.errors = @ + 1,
                                                !.calls = Append(@, call("exception"))],
                                    FALSE)
                  /\ UNCHANGED <<cluster_syntheses, alerts>>
               \/ \* the connection of the item fetch fails: the outer except clause
                  /\ faults < MaxFaults
                  /\ faults' = faults + 1
                  /\ run' = TopLevelFailure(run, "Cluster synthesis failed")
                  /\ alerts' = _send_alert(alerts, "cluster_synthesis")
                  /\ UNCHANGED cluster_syntheses
               \/ \* the connection of the upsert fails: the outer except clause
                  /\ faults < MaxFaults
                  /\ faults' = faults + 1
                  /\ run' = TopLevelFailure([run EXCEPT !.calls = Append(@, call("ok"))],
                                            "Cluster synthesis failed")
                  /\ alerts' = _send_alert(alerts, "cluster_synthesis")
                  /\ UNCHANGED cluster_syntheses
    /\ UNCHANGED <<now, next_uuid, items, deduplication_records,
                   similarity_dedup_threshold, ing, ing_log, source_errors, scan_order,
                   adapter_state, fetch_log, fn_call, thr,
                   analyses, analysis_errors,
                   exposures, exposure_errors, pipeline_runs, adapter_seen, cycle,
                   temporal_links>>

(***************************************************************************)
(* The pipeline on a store that earlier cycles have filled: three items    *)
(* with an analysis each, which the eligibility migration has marked       *)
(* eligible for exposure mapping, and a fourth item still to be analysed.  *)
(* The fourth item and the oldest analysis have failed twice already.      *)
(* pipeline_runs holds the rows of the last two ingestion runs, which      *)
(* found nothing new; alerts holds what is sent from here on.              *)
(* The deployment runs with the similarity check disabled.                *)
(***************************************************************************)
LegacyRaw(n, published) ==
    [source_name |-> <<"s">>, source_type |-> "report", title |-> <<"l", n>>,
     content |-> <<"c">>,
     published_at |-> [kind |-> "iso", at |-> published, utc_offset |-> 0]]

LegacyItems ==
    <<normalize(LegacyRaw("1", -30), 1, -10),
      normalize(LegacyRaw("2", -20), 2, -9),
      normalize(LegacyRaw("3", -10), 3, -8),
      normalize(LegacyRaw("4", -5), 4, -5)>>

\* _migrate_analyses_add_eligibility: the backfill of existing rows
Eligible(analysis) == [analysis EXCEPT !.eligible_for_exposure_mapping = TRUE]

LegacyAnalyses ==
    <<Eligible(AnalysisRow(5, 1, [change_type |-> "reinforcing", importance |-> "high"], -7)),
      Eligible(AnalysisRow(6, 2, [change_type |-> "friction", importance |-> "high"], -6)),
      Eligible(AnalysisRow(7, 3, [change_type |-> "reinforcing", importance |-> "high"], -5))>>

LegacyRuns ==
    <<[run_type |-> "ingestion", started_at |-> -3, status |-> "success",
       items_new |-> 0, error |-> ""],
      [run_type |-> "ingestion", started_at |-> -2, status |-> "success",
       items_new |-> 0, error |-> ""]>>

Init ==
    /\ now = 0
    /\ next_uuid = 8
    /\ items = LegacyItems
    /\ deduplication_records = <<>>
    /\ similarity_dedup_threshold = 0
    /\ ing = [c \in Callers |-> Idle]
    /\ ing_log = <<>>
    /\ analyses = LegacyAnalyses
    /\ analysis_errors = (4 :> 2)
    /\ exposures = <<>>
    /\ exposure_errors = (5 :> 2)
    /\ pipeline_runs = LegacyRuns
    /\ alerts = <<>>
    /\ adapter_seen = [hn |-> 0, rss |-> 0]
    /\ cycle = 0
    /\ run = NoRun
    /\ faults = 0
    /\ temporal_links = {}
    /\ cluster_syntheses = {}
    /\ source_errors = <<>>
    /\ scan_order \in ScanOrders
    /\ adapter_state = <<>>
    /\ fetch_log = NoFetches
    /\ fn_call = NoCall
    /\ thr = NoThreads

Next ==
    \/ IngestionStart
    \/ IngestionStep
    \/ AnalysisStart
    \/ AnalysisStep
    \/ ExposureStart
    \/ ExposureStep
    \/ TemporalLinking
    \/ ClusterStart
    \/ ClusterStep
    \/ RecordRun

Spec == Init /\ [][Next]_vars

(***************************************************************************)
(* Properties of ingest_item and persist_item (SpecIngest)                 *)
(***************************************************************************)
Range(seq) == {seq[n] : n \in 1..Len(seq)}

\* the completed calls that returned status duplicate, in completion order
DuplicateEntries == SelectSeq(ing_log, LAMBDA e : e.status = "duplicate")

\* the completed calls whose raw item passed validation
ValidEntries == {n \in 1..Len(ing_log) : ing_log[n].status # "invalid"}

\* C1: with the similarity check disabled, the first completed call for a
\* fingerprint returns new and its item is stored; every ingest_item call that
\* starts after a call for the same fingerprint has returned new returns
\* duplicate with duplicate_of the id of that first item; the deduplication
\* records are exactly one hash_exact record per duplicate call, in call order,
\* each naming that call alone; the stored rows are exactly the items of the
\* calls that returned new; and the number of rows is the number of distinct
\* fingerprints of the completed valid calls.
C1_ExactDuplicate ==
    similarity_dedup_threshold = 0 =>
        /\ \A j \in ValidEntries :
              (\A i \in ValidEntries : i < j => ing_log[i].h # ing_log[j].h)
              => /\ ing_log[j].status = "new"
                 /\ \E k \in 1..Len(items) : /\ items[k].id = ing_log[j].id
                                             /\ items[k].dedup_hash = ing_log[j].h
        /\ \A i, j \in ValidEntries :
              (/\ i < j
               /\ ing_log[i].status = "new"
               /\ ing_log[j].op = "ingest"
               /\ ing_log[j].h = ing_log[i].h
               /\ ing_log[j].started >= i)
              => /\ ing_log[j].status = "duplicate"
                 /\ ing_log[j].duplicate_of = ing_log[i].id
        /\ deduplication_records =
              [n \in 1..Len(DuplicateEntries) |->
                  DedupRecord(DuplicateEntries[n].duplicate_of, DuplicateEntries[n].id,
                              "hash_exact")]
        /\ {items[k].id : k \in 1..Len(items)} =
              {ing_log[n].id : n \in {m \in ValidEntries : ing_log[m].status = "new"}}
        /\ Len(items) = Cardinality({ing_log[n].h : n \in ValidEntries})

\* one item stored, then two later ingest_item calls for its fingerprint
C1_Witness ==
    /\ similarity_dedup_threshold = 0
    /\ Len(items) = 1
    /\ Len(DuplicateEntries) = 2
    /\ Len(deduplication_records) = 2

\* C2: no two rows of table items have the same dedup_hash, whatever calls of
\* ingest_item and persist_item, in whatever interleaving, produced the table.
C2_UniqueHash ==
    \A i, j \in 1..Len(items) : i # j => items[i].dedup_hash # items[j].dedup_hash

\* an ingest_item call that lost the race for its fingerprint and a persist_item
\* call for a stored fingerprint have both been rejected
C2_Witness ==
    /\ Len(items) >= 1
    /\ \E n \in 1..Len(ing_log) : ing_log[n].op = "ingest" /\ ing_log[n].status = "raised"
    /\ \E n \in 1..Len(ing_log) : ing_log[n].op = "persist" /\ ing_log[n].status = "raised"

(***************************************************************************)
(* Properties of the stages (Spec)                                         *)
(***************************************************************************)
BudgetStage == run.stage \in {"analysis", "exposure"}

\* the error table of the stage in progress
StageErrors == IF run.stage = "analysis" THEN analysis_errors ELSE exposure_errors

CalledSubjects == {run.calls[n].subject : n \in 1..Len(run.calls)}

\* the stage has run its backlog query and nothing else
JustStarted(stage) ==
    /\ run.stage = stage
    /\ run.calls = <<>>
    /\ run.error_msg = ""
    /\ run.pos \in {"loop", "record"}

C4_TransientFree ==
    BudgetStage =>
        \A n \in 1..Len(run.calls) :
            run.calls[n].outcome = "transient"
            => /\ run.calls[n].after = run.calls[n].before
               /\ AttemptCount(StageErrors, run.calls[n].subject) = run.calls[n].before
               /\ (run.calls[n].before = 0) = (run.calls[n].subject \notin DOMAIN StageErrors)
               /\ IF run.stage = "analysis"
                  THEN AnalysisPending(analyses, analysis_errors, run.calls[n].subject)
                  ELSE \E a \in 1..Len(analyses) :
                          /\ analyses[a].id = run.calls[n].subject
                          /\ ExposurePending(exposures, exposure_errors, analyses[a])

\* api_error for a subject that already has an error record
C4_Witness ==
    /\ BudgetStage
    /\ \E n \in 1..Len(run.calls) :
          run.calls[n].outcome = "transient" /\ run.calls[n].before = 2

\* C5: in one invocation of analysis, exposure mapping or cluster synthesis, a
\* call that ended with api_error is the last call of the invocation: the loop is
\* left and no subject remains to be processed.
C5_HaltOnTransient ==
    run.stage \in {"analysis", "exposure", "cluster_synthesis"} =>
        \A n \in 1..Len(run.calls) :
            run.calls[n].outcome = "transient"
            => /\ n = Len(run.calls)
               /\ run.pos # "loop"
               /\ run.batch = <<>>
               /\ run.halted

\* api_error while subjects of the batch were still to come
C5_Witness ==
    /\ run.stage \in {"analysis", "exposure", "cluster_synthesis"}
    /\ \E n \in 1..Len(run.calls) :
          run.calls[n].outcome = "transient" /\ run.calls[n].remaining > 0

\* C6: a call that ended with a non-transient error code leaves the subject's
\* attempt_count one higher than before (1 if there was no record), and the
\* stage goes on to the next subject: right after the call the rest of the batch
\* is still to be processed.
C6_ItemErrorCounted ==
    BudgetStage =>
        /\ \A n \in 1..Len(run.calls) :
              run.calls[n].outcome = "item_error"
              => /\ run.calls[n].after = run.calls[n].before + 1
                 /\ AttemptCount(StageErrors, run.calls[n].subject) = run.calls[n].after
        /\ (Len(run.calls) > 0 /\ run.calls[Len(run.calls)].outcome = "item_error")
           => /\ Len(run.batch) = run.calls[Len(run.calls)].remaining
              /\ (run.calls[Len(run.calls)].remaining > 0) = (run.pos = "loop")
              /\ ~run.halted

\* the first failure of a subject creates its record, and the loop goes on
C6_Witness ==
    /\ BudgetStage
    /\ Len(run.calls) > 0
    /\ run.calls[Len(run.calls)].outcome = "item_error"
    /\ run.calls[Len(run.calls)].before = 0
    /\ run.calls[Len(run.calls)].after = 1
    /\ run.pos = "loop"

\* items with no analyses row and no error record or fewer than 3 attempts
PendingItems ==
    {items[k].id : k \in {m \in 1..Len(items) :
        /\ ~\E a \in 1..Len(analyses) : analyses[a].item_id = items[m].id
        /\ \/ items[m].id \notin DOMAIN analysis_errors
           \/ analysis_errors[items[m].id] < 3}}

\* eligible analyses with no exposures row and no error record or fewer than 3
\* attempts
PendingAnalyses ==
    {analyses[a].id : a \in {m \in 1..Len(analyses) :
        /\ analyses[m].eligible_for_exposure_mapping
        /\ ~\E e \in 1..Len(exposures) : exposures[e].analysis_id = analyses[m].id
        /\ \/ analyses[m].id \notin DOMAIN exposure_errors
           \/ exposure_errors[analyses[m].id] < 3}}

AnalyzedAt(analysis_id) ==
    analyses[CHOOSE a \in 1..Len(analyses) : analyses[a].id = analysis_id].analyzed_at

RowOfThisRun ==
    /\ Len(pipeline_runs) = run.runs0 + 1
    /\ pipeline_runs[Len(pipeline_runs)].run_type = run.stage
    /\ pipeline_runs[Len(pipeline_runs)].status =
          (IF run.error_msg # "" THEN "error" ELSE "success")
    /\ pipeline_runs[Len(pipeline_runs)].error = run.error_msg

\* C8: a stage invocation that has ended has appended exactly one PipelineRun
\* row, with status error and the error message when the stage failed at top
\* level.
C8_OneRunRow ==
    (run.stage # "none" /\ run.pos \in {"returned", "raised"}) => RowOfThisRun

\* C9: a stage invocation that failed at top level has sent exactly one alert,
\* the alert of its stage; it has left its loop for _record_run, and when
\* _record_run has returned the run row with status error and the message is
\* there.
C9_AlertAndRecord ==
    (run.stage # "none" /\ run.error_msg # "") =>
        /\ Len(alerts) = run.alerts0 + 1
        /\ alerts[Len(alerts)] = AlertText(run.stage)
        /\ run.pos \in {"record", "returned", "raised"}
        /\ (run.pos = "record" \/ run.pos = "raised") => Len(pipeline_runs) = run.runs0
        /\ run.pos = "returned" => RowOfThisRun

\* a stage failed at top level, and its run row has been written
C9_Witness ==
    /\ run.stage # "none"
    /\ run.error_msg # ""
    /\ run.pos = "returned"
    /\ pipeline_runs[Len(pipeline_runs)].status = "error"

\* the adapter types of the sources file that are registered and enabled
EnabledAdapters ==
    {SourcesConfig[n].type : n \in {m \in 1..Len(SourcesConfig) :
        SourcesConfig[m].type \in Registry /\ SourcesConfig[m].enabled}}

\* C10: when the loop over the adapters of an ingestion cycle is over and the
\* fetch of an adapter has raised, every other enabled, registered adapter of the
\* sources file has been fetched.
C10_AdapterIsolation ==
    (run.stage = "ingestion" /\ run.pos # "loop" /\ run.failed # {})
    => (EnabledAdapters \ run.failed) \subseteq run.fetched

(***************************************************************************)
(* Circuit breaker of the adapters.  tests/test_jobs.py (TestSourceError-  *)
(* Tracking, TestAdapterFailureAlert) imports _record_source_failure and   *)
(* _record_source_success from worldlines.jobs and reads a table           *)
(* source_errors; jobs.py and storage/schema.py define neither, so the two *)
(* functions are written from the specification and from these tests.  No  *)
(* statement of run_ingestion reads or writes the table.                   *)
(***************************************************************************)
\* recordFailure(adapter): the counter of the adapter plus one, 1 for a new row
_record_source_failure(errs, adapter_name) ==
    IF adapter_name \in DOMAIN errs
    THEN [errs EXCEPT ![adapter_name] = @ + 1]
    ELSE [a \in DOMAIN errs \cup {adapter_name} |->
              IF a = adapter_name THEN 1 ELSE errs[a]]

\* recordSuccess(adapter): the counter of the adapter set to 0, the row created
\* when absent
_record_source_success(errs, adapter_name) ==
    [a \in DOMAIN errs \cup {adapter_name} |-> IF a = adapter_name THEN 0 ELSE errs[a]]

\* the adapters whose fetch raised, or returned, in the step from the unprimed to
\* the primed state
FetchRaised(adapter_name) ==
    /\ run.stage = "ingestion" /\ run.pos = "loop"
    /\ adapter_name \notin run.failed /\ adapter_name \in run'.failed

FetchReturned(adapter_name) ==
    /\ run.stage = "ingestion" /\ run.pos = "loop"
    /\ adapter_name \notin run.fetched /\ adapter_name \in run'.fetched

\* C11: a fetch that raises during run_ingestion is one failure event (the
\* adapter's consecutive_failures goes up by exactly 1, from nothing to 1), a
\* fetch that returns is one success event (the counter becomes 0, the row is
\* created when absent), and the exception of a fetch does not leave
\* run_ingestion.
C11_FetchOutcomeRecorded ==
    [][\A a \in Registry :
          /\ FetchRaised(a) =>
                /\ source_errors' = _record_source_failure(source_errors, a)
                /\ run'.pos # "raised"
          /\ FetchReturned(a) =>
                source_errors' = _record_source_success(source_errors, a)]_vars

\* Config.source_failure_alert_threshold (tests/test_jobs.py 846, 870; config.py
\* has no such field): the value chosen makes the first failure of an adapter the
\* crossing
source_failure_alert_threshold == 1

\* the alert of the circuit breaker names the adapter and its consecutive failures
\* (tests/test_jobs.py 861-865, 889-894)
AdapterAlertText(adapter_name) == <<adapter_name, "consecutive failures">>

\* the messages handed to _send_alert in the step from the unprimed to the primed
\* state
AlertsSentInStep == Range(SubSeq(alerts', Len(alerts) + 1, Len(alerts')))

\* C12: a fetch that raises sends the adapter-failure alert if and only if the
\* adapter's consecutive_failures after the increment equals the configured
\* threshold.
C12_AlertOnCrossing ==
    [][\A a \in Registry :
          FetchRaised(a) =>
             (AdapterAlertText(a) \in AlertsSentInStep
              <=> _record_source_failure(source_errors, a)[a]
                      = source_failure_alert_threshold)]_vars

(***************************************************************************)
(* Stall detection.  tests/test_jobs.py (TestIngestionStallDetection)      *)
(* imports _check_ingestion_stall from worldlines.jobs, which does not     *)
(* define it; the check is written from the specification and these tests. *)
(* run_ingestion ends with _record_run and makes no such check.            *)
(***************************************************************************)
\* Config.ingestion_stall_hours and Config.ingestion_stall_min_items (passed by
\* the tests, absent from config.py), and the least number of runs the window
\* must hold (tests: "Fewer than 3 runs in the window -> no alert")
ingestion_stall_hours == 24
ingestion_stall_min_items == 1
StallMinRuns == 3

\* the ingestion runs started within the trailing window
StallWindow(runs, t) ==
    SelectSeq(runs, LAMBDA r : /\ r.run_type = "ingestion"
                               /\ r.started_at >= t - ingestion_stall_hours)

RECURSIVE SumItemsNew(_)
SumItemsNew(rows) ==
    IF rows = <<>> THEN 0 ELSE Head(rows).items_new + SumItemsNew(Tail(rows))

\* _check_ingestion_stall: enough history, and too few new items in the window
_check_ingestion_stall(runs, t) ==
    /\ Len(StallWindow(runs, t)) >= StallMinRuns
    /\ SumItemsNew(StallWindow(runs, t)) < ingestion_stall_min_items

StallAlertText == <<"ingestion", "stall">>

\* the stall alerts sent by the stage invocation in progress (or just ended)
StallAlertsOfRun ==
    Len(SelectSeq(SubSeq(alerts, run.alerts0 + 1, Len(alerts)),
                  LAMBDA m : m = StallAlertText))

\* C13: when a clean ingestion run has returned, exactly one stall alert has been
\* sent if the trailing window holds at least the minimum number of ingestion
\* runs and their new-item counts sum to less than the configured minimum, and
\* none otherwise.
C13_StallDetection ==
    (run.stage = "ingestion" /\ run.pos = "returned" /\ run.error_msg = "")
    => StallAlertsOfRun = (IF _check_ingestion_stall(pipeline_runs, now) THEN 1 ELSE 0)

(***************************************************************************)
(* Order of the stages within a cycle                                      *)
(***************************************************************************)
\* a stage function is entered in the step from the unprimed to the primed state
StageEntered == run'.stage # "none" /\ (run'.stage # run.stage \/ cycle' # cycle)

\* the stage that run_pipeline calls right before the given one
IsPrevStage(prev, stage) ==
    \E k \in 1..(Len(Stages) - 1) : Stages[k] = prev /\ Stages[k + 1] = stage

\* C14: within a cycle the stages run one after the other in the order
\* ingestion, analysis, exposure, temporal linking, cluster synthesis, each
\* entered only when the one before it has returned, and each exactly once: a
\* cycle begins with ingestion, and only when all five stages of the cycle
\* before it have run.
C14_StageOrder ==
    [][StageEntered =>
          IF run'.stage = "ingestion"
          THEN /\ cycle' = cycle + 1
               /\ \/ run.stage = "none"
                  \/ run.stage = "cluster_synthesis" /\ run.pos = "returned"
          ELSE /\ cycle' = cycle
               /\ run.pos = "returned"
               /\ IsPrevStage(run.stage, run'.stage)]_vars

(***************************************************************************)
(* Temporal linking run again and again over one store.  The store holds   *)
(* three items, each with an analysis and an exposure row; the publication *)
(* times, change types and tickers are drawn from small sets.  Between two *)
(* linking runs the rest of the cycle and the first three stages of the    *)
(* next cycle find nothing to do and an hour passes.                       *)
(***************************************************************************)
MaxLinkCycles == 2

LinkChangeTypes == {"reinforcing", "friction", "early_signal"}

\* publication times: item 1 at the edge of the window of the first run or
\* well inside it; item 3 at the time of item 2, one local hour later in a feed
\* two hours east of UTC, or ten hours later
LinkTimes ==
    {<<t1, IsoText(-20, 0), t3>> :
        t1 \in {WindowCutoff(0), IsoText(-30, 0)},
        t3 \in {IsoText(-20, 0), IsoText(-19, 2), IsoText(-10, 0)}}

\* the ticker entries of the three exposure rows; validate_output accepts an
\* answer that names a ticker in two entries, and it is stored as it came
LinkTickers ==
    {<<<<"T1", "T2">>, k2, k3>> :
        k2 \in {<<"T1">>, <<"T1", "T2">>},
        k3 \in {<<"T2">>, <<"T1", "T2">>, <<"T2", "T2">>}}

LinkRaw(n, times) ==
    [LegacyRaw(<<"1", "2", "3">>[n], 0) EXCEPT
        !.published_at = [kind |-> "iso", at |-> times[n].at,
                          utc_offset |-> times[n].utc_offset]]

InitLinks ==
    /\ now = 0
    /\ next_uuid = 10
    /\ \E times \in LinkTimes :
          items = [n \in 1..3 |-> normalize(LinkRaw(n, times), n, -9)]
    /\ \E types \in [1..3 -> LinkChangeTypes] :
          analyses = [n \in 1..3 |->
                         AnalysisRow(3 + n, n, [change_type |-> types[n],
                                                importance |-> "high"], -8)]
    /\ \E tickers \in LinkTickers :
          exposures = [n \in 1..3 |->
                          ExposureRow(6 + n, 3 + n, [tickers |-> tickers[n],
                                                     skipped |-> FALSE])]
    /\ deduplication_records = <<>>
    /\ similarity_dedup_threshold = 0
    /\ ing = [c \in Callers |-> Idle]
    /\ ing_log = <<>>
    /\ analysis_errors = <<>>
    /\ exposure_errors = <<>>
    /\ pipeline_runs = <<>>
    /\ alerts = <<>>
    /\ adapter_seen = [hn |-> 0, rss |-> 0]
    /\ cycle = 1
    /\ run = [StartRun("exposure") EXCEPT !.pos = "returned", !.alerts0 = 0, !.runs0 = 0]
    /\ faults = 0
    /\ temporal_links = {}
    /\ cluster_syntheses = {}
    /\ source_errors = <<>>
    /\ scan_order \in ScanOrders
    /\ adapter_state = <<>>
    /\ fetch_log = NoFetches
    /\ fn_call = NoCall
    /\ thr = NoThreads

\* from the end of a linking run to the next one: cluster synthesis, then
\* ingestion, analysis and exposure mapping of the next cycle, with no new item,
\* analysis or exposure
QuietCycle ==
    /\ run.stage = "temporal_linking"
    /\ run.pos \in {"returned", "raised"}
    /\ cycle < MaxLinkCycles
    /\ cycle' = cycle + 1
    /\ now' = now + 1
    /\ run' = [StartRun("exposure") EXCEPT !.pos = "returned"]
    /\ UNCHANGED <<next_uuid, items, deduplication_records, similarity_dedup_threshold,
                   ing, ing_log, source_errors, scan_order,
                   adapter_state, fetch_log, fn_call, thr, analyses, analysis_errors,
                   exposures, exposure_errors, pipeline_runs, alerts, adapter_seen,
                   faults, temporal_links, cluster_syntheses>>

NextLinks ==
    \/ TemporalLinking
    \/ RecordRun
    \/ QuietCycle

SpecLinks == InitLinks /\ [][NextLinks]_vars

\* two link rows for the same ordered pair of items
SamePair(l, m) ==
    l.source_item_id = m.source_item_id /\ l.target_item_id = m.target_item_id

\* a linking run before the one in progress (or just ended) has succeeded
LinkedBefore ==
    \E n \in 1..run.runs0 : /\ pipeline_runs[n].run_type = "temporal_linking"
                            /\ pipeline_runs[n].status = "success"

\* C15: no two temporal links have the same (source, target) pair; a linking run
\* over the data an earlier run has linked creates no link, and it fails only
\* when a store connection fails, never on a pair that is linked already.
C15_LinkIdempotent ==
    /\ \A l, m \in temporal_links : SamePair(l, m) => l = m
    /\ (run.stage = "temporal_linking" /\ run.error_msg = "" /\ LinkedBefore)
       => /\ run.ok = 0
          /\ \A l \in temporal_links : l.created_at < now
    /\ (run.stage = "temporal_linking" /\ run.error_msg # "") => faults > 0

\* a second linking run has considered pairs that are all linked, and has returned
C15_Witness ==
    /\ run.stage = "temporal_linking" /\ run.pos = "returned" /\ run.error_msg = ""
    /\ LinkedBefore
    /\ run.found > 0 /\ run.ok = 0
    /\ temporal_links # {}

\* the change type of the analysis of an item
ChangeTypeOf(item_id) ==
    analyses[CHOOSE n \in 1..Len(analyses) : analyses[n].item_id = item_id].change_type

\* C16: every temporal link has the type given by the change types of its two
\* items: reinforces when they are equal, contradicts when one is reinforcing
\* and the other friction (in either order), extends otherwise.
C16_LinkType ==
    \A l \in temporal_links :
        LET s == ChangeTypeOf(l.source_item_id)
            t == ChangeTypeOf(l.target_item_id)
        IN l.link_type =
              (IF s = t THEN "reinforces"
               ELSE IF \/ s = "reinforcing" /\ t = "friction"
                       \/ s = "friction" /\ t = "reinforcing"
                    THEN "contradicts"
                    ELSE "extends")

\* a friction item linked to an older reinforcing item, and a link of type extends
C16_Witness ==
    /\ \E l \in temporal_links :
          /\ l.link_type = "contradicts"
          /\ ChangeTypeOf(l.source_item_id) = "friction"
          /\ ChangeTypeOf(l.target_item_id) = "reinforcing"
    /\ \E l \in temporal_links : l.link_type = "extends"

\* the stored timestamp of an item, and the instant (in UTC) a timestamp denotes
TimestampOf(item_id) ==
    items[CHOOSE n \in 1..Len(items) : items[n].id = item_id].timestamp

Instant(text) == text.at - text.utc_offset

\* C17: the source of every temporal link is the newer item of the pair: the
\* instant of its timestamp is not earlier than the instant of the target's.
C17_NewerIsSource ==
    \A l \in temporal_links :
        Instant(TimestampOf(l.source_item_id)) >= Instant(TimestampOf(l.target_item_id))

\* the cluster the loop of run_cluster_synthesis is at has the member ids that
\* the stored synthesis of its ticker has
AtStoredCluster ==
    /\ run.stage = "cluster_synthesis" /\ run.pos = "loop"
    /\ \E r \in cluster_syntheses :
          r.ticker = Head(run.batch).ticker /\ r.item_ids = Head(run.batch).item_ids

\* C18: when the sorted member ids of a ticker equal the ids stored in its
\* synthesis, the pass of the loop for that ticker calls the synthesis service
\* not at all and leaves the stored syntheses as they are.
C18_SkipUnchanged ==
    [][AtStoredCluster =>
          /\ run'.calls = run.calls
          /\ cluster_syntheses' = cluster_syntheses]_vars

\* a cluster of a later cycle was found unchanged and has been passed over
C18_Witness ==
    /\ run.stage = "cluster_synthesis"
    /\ run.skipped > 0
    /\ run.calls = <<>>
    /\ cluster_syntheses # {}

(***************************************************************************)
(* Concurrent callers of ingest_item (SpecIngest)                          *)
(***************************************************************************)
\* the completed ingest_item calls for a fingerprint that returned status new
NewIngests(h) ==
    {n \in 1..Len(ing_log) : /\ ing_log[n].op = "ingest"
                             /\ ing_log[n].status = "new"
                             /\ ing_log[n].h = h}

\* C19: of the ingest_item calls for one fingerprint, however their reads and
\* writes interleave, at most one returns status new, and table items holds at
\* most one row with that fingerprint.
C19_OneNewPerFingerprint ==
    \A h \in {ing_log[n].h : n \in 1..Len(ing_log)} :
        /\ Cardinality(NewIngests(h)) <= 1
        /\ Cardinality({k \in 1..Len(items) : items[k].dedup_hash = h}) <= 1

\* two ingest_item calls for one fingerprint have both passed the exact-match
\* check before either insert; one has returned new, the other has ended
C19_Witness ==
    \E i, j \in 1..Len(ing_log) :
        /\ i < j
        /\ ing_log[i].op = "ingest" /\ ing_log[j].op = "ingest"
        /\ ing_log[i].h = ing_log[j].h
        /\ ing_log[i].status = "new"
        /\ ing_log[j].status # "duplicate"
        /\ ing_log[j].started < i
        /\ Cardinality({k \in 1..Len(items) : items[k].dedup_hash = ing_log[i].h}) = 1

\* C20: an ingest_item call that passed the exact-match check and lost the
\* insert to another call for the same fingerprint ends as a duplicate (or as
\* new), never with an exception.
C20_RaceIsDuplicate ==
    \A n \in 1..Len(ing_log) :
        (ing_log[n].op = "ingest" /\ ing_log[n].status # "invalid")
        => ing_log[n].status \in {"new", "duplicate"}

(***************************************************************************)
(* Validation failures inside run_ingestion                                *)
(***************************************************************************)
\* the adapter whose fetch returned in this step
FetchedInStep == run'.fetched \ run.fetched

\* the raw items that fetch returned: the entries not marked seen before
FetchedBatch(type) ==
    SubSeq(Upstream[type], adapter_seen[type] + 1, Len(Upstream[type]))

StoredHash(its, raw) ==
    \E k \in 1..Len(its) :
        its[k].dedup_hash = compute_dedup_hash(raw.title, raw.source_name, raw.content)

\* C21: when a fetch returns a batch with an invalid raw item, the invalid item
\* adds no item row and no deduplication record, and every valid raw item of
\* the batch is ingested (its fingerprint is stored after the step).
C21_InvalidItemIsolated ==
    [][\A type \in FetchedInStep :
          LET batch == FetchedBatch(type)
              valid == {n \in 1..Len(batch) : _validate_raw_item(batch[n]) = {}}
          IN /\ \A n \in valid : StoredHash(items', batch[n])
             /\ Len(items') + Len(deduplication_records')
                  <= Len(items) + Len(deduplication_records) + Cardinality(valid)]_vars

\* C22: a stage invocation in which a call ended with the transient code
\* api_error has sent an alert to the notification channel by the time its loop
\* is left.
C22_TransientAlerted ==
    (/\ run.stage \in {"analysis", "exposure", "cluster_synthesis"}
     /\ run.pos \in {"record", "returned"}
     /\ \E n \in 1..Len(run.calls) : run.calls[n].outcome = "transient")
    => Len(alerts) > run.alerts0

(***************************************************************************)
(* ingestion/hn_adapter.py, ingestion/rss_adapter.py: the seen sets.       *)
(* Every fetch loads the seen set from table adapter_state and stores it   *)
(* back, so each call is as good as a call on a new adapter instance.  A   *)
(* source identity (story id, entry URL) is a number; 0 is an entry        *)
(* without link.  What the source lists is the environment's choice.       *)
(***************************************************************************)
\* 5000 in the adapters; small here, so that the cap is reached
_MAX_SEEN_IDS == 2
MaxSourceId == 3
MaxListing == 2
\* config: max_items of the hn entry, max_items_per_source
max_items == 1
max_items_per_source == 1

\* hn: a story above min_score; something that is no story or has no title; a
\* story below min_score or whose item request failed
HNKinds == {"story", "other", "low"}
\* rss: an entry with title and content; an entry that lacks one of them
RSSKinds == {"story", "empty"}

\* what one request to the source may list
Listings(ids, kinds) ==
    UNION {[1..n -> [id : ids, kind : kinds]] : n \in 0..MaxListing}

\* SELECT state_data FROM adapter_state ...: set() when there is no row
_load_seen_ids(state, key) == IF key \in DOMAIN state THEN state[key] ELSE {}

\* HNAdapter._save_seen_ids (RedditAdapter, GitHubAdapter alike):
\* sorted(seen_ids, reverse=True)[:_MAX_SEEN_IDS], the largest ids
_save_seen_ids(seen_ids) ==
    {i \in seen_ids : Cardinality({j \in seen_ids : j > i}) < _MAX_SEEN_IDS}

\* RSSAdapter._save_seen_urls: sorted(seen_urls), all of them
_save_seen_urls(seen_urls) == seen_urls

\* INSERT INTO adapter_state ... ON CONFLICT(adapter_name, feed_url) DO UPDATE
UpsertState(state, key, seen) ==
    [k \in DOMAIN state \cup {key} |-> IF k = key THEN seen ELSE state[k]]

\* the loop of HNAdapter.fetch over story_ids
RECURSIVE HNLoop(_, _, _)
HNLoop(story_ids, seen_ids, returned) ==
    IF story_ids = <<>> \/ Len(returned) >= max_items THEN [seen |-> seen_ids, items |-> returned]
    ELSE LET e == Head(story_ids) IN
         IF e.id \in seen_ids \/ e.kind = "low"
         THEN HNLoop(Tail(story_ids), seen_ids, returned)
         ELSE IF e.kind = "other"
         THEN HNLoop(Tail(story_ids), seen_ids \cup {e.id}, returned)
         ELSE HNLoop(Tail(story_ids), seen_ids \cup {e.id}, Append(returned, e.id))

\* the loop of RSSAdapter._fetch_feed over feed.entries[:max_items_per_feed]
RECURSIVE RSSLoop(_, _, _)
RSSLoop(entries, seen_urls, returned) ==
    IF entries = <<>> THEN [seen |-> seen_urls, items |-> returned]
    ELSE LET e == Head(entries) IN
         IF (e.id # 0 /\ e.id \in seen_urls) \/ e.kind = "empty"
         THEN RSSLoop(Tail(entries), seen_urls, returned)
         ELSE RSSLoop(Tail(entries),
                      IF e.id # 0 THEN seen_urls \cup {e.id} ELSE seen_urls,
                      Append(returned, e.id))

\* fetch has returned: the identities it returned, and which of them an earlier
\* call of the adapter had returned already
LogFetch(log, adapter, returned) ==
    LET ids == {returned[n] : n \in 1..Len(returned)} \ {0} IN
    [ever |-> [log.ever EXCEPT ![adapter] = @ \cup ids],
     adapter |-> adapter, returned |-> ids, again |-> ids \cap log.ever[adapter]]

\* HNAdapter.fetch
FetchHN ==
    \E story_ids \in Listings(1..MaxSourceId, HNKinds) :
        \E r \in {HNLoop(story_ids, _load_seen_ids(adapter_state, "hn"), <<>>)} :
            /\ adapter_state' = UpsertState(adapter_state, "hn", _save_seen_ids(r.seen))
            /\ fetch_log' = LogFetch(fetch_log, "hn", r.items)

\* RSSAdapter.fetch with one configured feed
FetchRSS ==
    \E entries \in Listings(0..MaxSourceId, RSSKinds) :
        \E r \in {RSSLoop(SubSeq(entries, 1, IF Len(entries) < max_items_per_source
                                             THEN Len(entries)
                                             ELSE max_items_per_source),
                          _load_seen_ids(adapter_state, "rss"), <<>>)} :
            /\ adapter_state' = UpsertState(adapter_state, "rss", _save_seen_urls(r.seen))
            /\ fetch_log' = LogFetch(fetch_log, "rss", r.items)

fetchVars == <<now, next_uuid, items, deduplication_records, similarity_dedup_threshold,
               ing, ing_log, analyses, analysis_errors, exposures, exposure_errors,
               pipeline_runs, alerts, adapter_seen, cycle, run, faults, temporal_links,
               cluster_syntheses, source_errors, scan_order, fn_call, thr>>

InitFetch ==
    /\ now = 0
    /\ next_uuid = 1
    /\ items = <<>>
    /\ deduplication_records = <<>>
    /\ ing = [c \in Callers |-> Idle]
    /\ ing_log = <<>>
    /\ similarity_dedup_threshold = 0
    /\ NoPipeline

NextFetch ==
    \/ FetchHN /\ UNCHANGED fetchVars
    \/ FetchRSS /\ UNCHANGED fetchVars

SpecFetch == InitFetch /\ [][NextFetch]_vars

\* C23: a fetch returns no source identity that an earlier fetch of the same
\* adapter has returned.
C23_NeverReturnedTwice == fetch_log.again = {}

\* C24: the seen set stored for an adapter holds at most _MAX_SEEN_IDS entries.
C24_SeenSetCapped ==
    \A key \in DOMAIN adapter_state : Cardinality(adapter_state[key]) <= _MAX_SEEN_IDS

\* the loop of run_ingestion stands before an entry of an unregistered type
AtUnknownType ==
    /\ run.stage = "ingestion" /\ run.pos = "loop"
    /\ Head(run.batch).type \notin Registry

\* C25: the pass over an adapter entry of an unregistered type fetches and
\* ingests nothing, sends no alert, leaves the run's error state (and so the
\* status of its run record) as it was, and leaves the remaining entries to
\* be processed.
C25_UnknownTypeSkipped ==
    [][AtUnknownType =>
          /\ run'.stage = "ingestion"
          /\ run'.batch = Tail(run.batch)
          /\ run'.pos = (IF Tail(run.batch) = <<>> THEN "record" ELSE "loop")
          /\ run'.error_msg = run.error_msg
          /\ RunRow(run').status = RunRow(run).status
          /\ run'.fetched = run.fetched /\ run'.failed = run.failed
          /\ UNCHANGED <<items, deduplication_records, adapter_seen, alerts, next_uuid>>]_vars

\* an ingestion run over a sources file with an unregistered type has written
\* its run record with status success
C25_Witness ==
    /\ run.stage = "ingestion" /\ run.pos = "returned"
    /\ \E n \in 1..Len(SourcesConfig) : SourcesConfig[n].type \notin Registry
    /\ Len(pipeline_runs) = run.runs0 + 1
    /\ pipeline_runs[Len(pipeline_runs)].status = "success"
    /\ run.fetched # {}

(***************************************************************************)
(* ingestion/dedup.py called on its own: compute_dedup_hash on two         *)
(* (title, source_name, content) triples, compute_title_shingle_similarity *)
(* on two titles.  The arguments are drawn before the call.                *)
(***************************************************************************)
\* texts that differ in case, white space, composition, and one that holds U+0000
TextPool ==
    {<<>>,
     <<"a">>,
     <<" ", "A", "TAB">>,
     <<"a", "NUL", "a">>,
     <<"a", " ", "TAB", "e", "COMB">>,
     <<"A", "LF", "E_acute">>}

\* titles: the texts above, white space alone, and titles longer than a shingle
TitlePool == TextPool \cup {<<" ", "TAB">>, RawA.title, RawA2.title, RawB.title}

Triples == [title : TextPool, source_name : TextPool, content : TextPool]

HashArgs == [a : Triples, b : Triples]
SimilarityArgs == [title1 : TitlePool, title2 : TitlePool]

InitDedup ==
    /\ now = 0
    /\ next_uuid = 1
    /\ items = <<>>
    /\ deduplication_records = <<>>
    /\ ing = [c \in Callers |-> Idle]
    /\ ing_log = <<>>
    /\ similarity_dedup_threshold \in Thresholds
    /\ analyses = <<>>
    /\ analysis_errors = <<>>
    /\ exposures = <<>>
    /\ exposure_errors = <<>>
    /\ pipeline_runs = <<>>
    /\ alerts = <<>>
    /\ adapter_seen = <<>>
    /\ cycle = 0
    /\ run = NoRun
    /\ faults = 0
    /\ temporal_links = {}
    /\ cluster_syntheses = {}
    /\ source_errors = <<>>
    /\ scan_order = "table"
    /\ adapter_state = <<>>
    /\ fetch_log = NoFetches
    /\ fn_call \in {[NoCall EXCEPT !.args = x] : x \in HashArgs \cup SimilarityArgs}
    /\ thr = NoThreads

HashOf(triple) == compute_dedup_hash(triple.title, triple.source_name, triple.content)

\* compute_dedup_hash on the one triple and on the other
CallHash ==
    /\ fn_call.fn = "none"
    /\ fn_call.args \in HashArgs
    /\ fn_call' = [fn_call EXCEPT !.fn = "compute_dedup_hash",
                                  !.result = <<HashOf(fn_call.args.a),
                                               HashOf(fn_call.args.b)>>]

\* compute_title_shingle_similarity(title1, title2)
CallSimilarity ==
    /\ fn_call.fn = "none"
    /\ fn_call.args \in SimilarityArgs
    /\ fn_call' = [fn_call EXCEPT
                      !.fn = "compute_title_shingle_similarity",
                      !.result = compute_title_shingle_similarity(fn_call.args.title1,
                                                                  fn_call.args.title2)]

storeVars == <<now, next_uuid, items, deduplication_records, similarity_dedup_threshold,
               ing, ing_log, analyses, analysis_errors, exposures, exposure_errors,
               pipeline_runs, alerts, adapter_seen, cycle, run, faults, temporal_links,
               cluster_syntheses, source_errors, scan_order, adapter_state, fetch_log,
               thr>>

NextDedup ==
    \/ CallHash /\ UNCHANGED storeVars
    \/ CallSimilarity /\ UNCHANGED storeVars

SpecDedup == InitDedup /\ [][NextDedup]_vars

\* the three fields of a triple after _normalize_text
NormalizedFields(triple) ==
    <<_normalize_text(triple.title), _normalize_text(triple.source_name),
      _normalize_text(triple.content)>>

\* C26: two triples get the same fingerprint exactly when their three fields
\* are equal after normalization.
C26_FingerprintByNormalizedFields ==
    fn_call.fn = "compute_dedup_hash"
    => ((fn_call.result[1] = fn_call.result[2])
        <=> (NormalizedFields(fn_call.args.a) = NormalizedFields(fn_call.args.b)))

\* C27: no normalized field holds the separator U+0000, and two triples with
\* the same joined string have the same normalized fields.
C27_SeparatorNotInFields ==
    fn_call.fn = "compute_dedup_hash"
    => /\ \A t \in {fn_call.args.a, fn_call.args.b} : \A k \in 1..3 :
             \A n \in 1..Len(NormalizedFields(t)[k]) : NormalizedFields(t)[k][n] # "NUL"
       /\ (fn_call.result[1] = fn_call.result[2]
           => NormalizedFields(fn_call.args.a) = NormalizedFields(fn_call.args.b))

\* C28: when a title is empty after normalization the similarity is 0, which
\* is below every threshold that enables the similarity check.
C28_EmptyTitleScoresZero ==
    (/\ fn_call.fn = "compute_title_shingle_similarity"
     /\ \/ _normalize_text(fn_call.args.title1) = <<>>
        \/ _normalize_text(fn_call.args.title2) = <<>>)
    => /\ fn_call.result[1] = 0
       /\ \A threshold \in Thresholds \ {0} : ~ScoreAtLeast(fn_call.result, threshold)

\* both titles are empty after normalization, one of them white space alone
C28_Witness ==
    /\ fn_call.fn = "compute_title_shingle_similarity"
    /\ fn_call.args.title1 = <<" ", "TAB">>
    /\ fn_call.args.title2 = <<>>
    /\ fn_call.result = <<0, 1>>

(***************************************************************************)
(* ingest_item called by one caller, call after call, on raw items whose   *)
(* titles are close to one another, with the clock moving a day at a time. *)
(***************************************************************************)
SimilarPool == {RawA, RawA2, RawB, RawC}
\* config: similarity check off, or on at 0.5
SimilarThresholds == {0, 50}

InitSimilar ==
    /\ now = 0
    /\ next_uuid = 1
    /\ items = <<>>
    /\ deduplication_records = <<>>
    /\ ing = [c \in Callers |-> Idle]
    /\ ing_log = <<>>
    /\ similarity_dedup_threshold \in SimilarThresholds
    /\ NoPipeline

\* a day passes
DayTick ==
    /\ now < MaxTicks * TickHours
    /\ now' = now + HoursPerDay
    /\ UNCHANGED <<next_uuid, items, deduplication_records, ing, ing_log,
                   similarity_dedup_threshold>>

NextSimilar ==
    \/ \E raw \in SimilarPool : IngestCheck(1, raw) /\ UNCHANGED stageVars
    \/ IngestInsert(1) /\ UNCHANGED stageVars
    \/ DayTick /\ UNCHANGED stageVars

SpecSimilar == InitSimilar /\ [][NextSimilar]_vars

\* the item was ingested within the trailing window
InWindow(row) == row.ingested_at >= now - DefaultWindowHours

\* the title scores at or above the configured threshold against the row's title
SimilarTo(title, row) ==
    ScoreAtLeast(compute_title_shingle_similarity(title, row.title),
                 similarity_dedup_threshold)

\* the step writes a content_similarity record
SimilarityRecorded ==
    /\ deduplication_records' # deduplication_records
    /\ deduplication_records'[Len(deduplication_records')].method = "content_similarity"

AtChangedCluster ==
    /\ run.stage = "cluster_synthesis" /\ run.pos = "loop"
    /\ Len(Head(run.batch).item_ids) >= 2
    /\ ~\E r \in cluster_syntheses :
          r.ticker = Head(run.batch).ticker /\ r.item_ids = Head(run.batch).item_ids

\* C30: the pass of the loop for a changed cluster calls the synthesis service
\* for its ticker (unless the stage fails before the call) and, when the
\* service returns a synthesis and the write commits, leaves exactly one row
\* for the ticker, holding the cluster's member ids, and the other rows as they
\* were; an error result writes nothing.  After every step there is at most one
\* row per ticker, and item_count is the length of the row's item_ids.
C30_UpsertPerTicker ==
    [][/\ \A r, q \in cluster_syntheses' : r.ticker = q.ticker => r = q
       /\ \A r \in cluster_syntheses' : r.item_count = Len(r.item_ids)
       /\ AtChangedCluster =>
            LET cluster == Head(run.batch) IN
            \/ run'.error_msg # "" /\ cluster_syntheses' = cluster_syntheses
            \/ /\ Len(run'.calls) = Len(run.calls) + 1
               /\ run'.calls[Len(run'.calls)].subject = cluster.ticker
               /\ IF run'.calls[Len(run'.calls)].outcome = "ok"
                  THEN /\ \E r \in cluster_syntheses' :
                             r.ticker = cluster.ticker /\ r.item_ids = cluster.item_ids
                       /\ {r \in cluster_syntheses' : r.ticker # cluster.ticker}
                            = {r \in cluster_syntheses : r.ticker # cluster.ticker}
                  ELSE cluster_syntheses' = cluster_syntheses]_vars

\* the synthesis of a ticker has been replaced by one over more items
C30_Witness ==
    /\ run.stage = "cluster_synthesis"
    /\ \E n \in 1..Len(run.calls) :
          /\ run.calls[n].outcome = "ok"
          /\ \E r \in cluster_syntheses :
                /\ r.ticker = run.calls[n].subject
                /\ r.synthesized_at = now
                /\ r.item_count > 2
    /\ cycle = 2

(***************************************************************************)
(* An exception out of the external call (Spec)                            *)
(***************************************************************************)
\* the invocation made its calls without a transient answer
NoTransientCall == \A n \in 1..Len(run.calls) : run.calls[n].outcome # "transient"

\* C31: in the analysis and exposure-mapping stages a call that raised counts as
\* one error and leaves the subject's attempt_count one higher than before (1 if
\* there was no record); the loop goes on with the rest of the batch, no result
\* is stored for the subject, and an invocation that saw no api_error has made
\* one call for every subject its backlog query found.
C31_ExceptionCounted ==
    [][(/\ run'.stage \in {"analysis", "exposure"}
        /\ Len(run'.calls) = Len(run.calls) + 1
        /\ run'.calls[Len(run'.calls)].outcome = "exception")
       => LET call == run'.calls[Len(run'.calls)] IN
          /\ call.subject = Head(run.batch)
          /\ run'.errors = run.errors + 1
          /\ run'.ok = run.ok /\ run'.skipped = run.skipped
          /\ call.after = call.before + 1
          /\ AttemptCount(IF run.stage = "analysis" THEN analysis_errors'
                          ELSE exposure_errors', call.subject)
                = AttemptCount(StageErrors, call.subject) + 1
          /\ analyses' = analyses /\ exposures' = exposures
          /\ run'.batch = Tail(run.batch)
          /\ run'.halted = run.halted
          /\ run'.error_msg = run.error_msg
          /\ (run'.pos = "loop") = (Len(run.batch) > 1)
          /\ (run'.pos # "loop" /\ \A n \in 1..Len(run'.calls) :
                                      run'.calls[n].outcome # "transient")
             => Len(run'.calls) = run'.found]_vars

\* the call for a subject that is not the last of its batch has raised, and the
\* invocation has gone on to call for the subjects after it
C31_Witness ==
    /\ BudgetStage
    /\ run.pos = "record"
    /\ NoTransientCall
    /\ Len(run.calls) = run.found
    /\ \E n \in 1..(Len(run.calls) - 1) :
          /\ run.calls[n].outcome = "exception"
          /\ run.calls[n].remaining > 0
          /\ run.calls[n].after = run.calls[n].before + 1
(***************************************************************************)
(* The call budget of an exposure-mapping run (Spec)                       *)
(***************************************************************************)
Min(a, b) == IF a < b THEN a ELSE b

\* C32: an exposure-mapping run makes at most exposure_max_per_run calls of the
\* mapping service, each for another analysis.  Its batch is the
\* exposure_max_per_run oldest pending analyses by analyzed_at (all of them when
\* there are fewer); a call changes the state of its own subject only, so the
\* pending analyses that were cut off are still pending when the run ends.
C32_ExposureCallBudget ==
    [][run'.stage = "exposure" =>
         /\ Len(run'.calls) + Len(run'.batch) <= exposure_max_per_run
         /\ \A m, n \in 1..Len(run'.calls) :
               m # n => run'.calls[m].subject # run'.calls[n].subject
         /\ IF run.stage # "exposure"
            THEN /\ run'.calls = <<>>
                 /\ PendingAnalyses' = PendingAnalyses
                 /\ run'.error_msg = ""
                    => /\ Range(run'.batch) \subseteq PendingAnalyses
                       /\ Len(run'.batch) = Min(Cardinality(PendingAnalyses),
                                                exposure_max_per_run)
                       /\ \A chosen \in Range(run'.batch),
                             left \in PendingAnalyses \ Range(run'.batch) :
                             AnalyzedAt(chosen) <= AnalyzedAt(left)
            ELSE /\ Len(run'.calls) <= Len(run.calls) + 1
                 /\ \A left \in PendingAnalyses :
                       (run.batch = <<>> \/ left # Head(run.batch))
                       => left \in PendingAnalyses']_vars

\* a second run has mapped the analysis that the limit cut off from the first
C32_Witness ==
    /\ run.stage = "exposure"
    /\ cycle = 2
    /\ run.pos = "record"
    /\ Len(run.calls) >= 1
    /\ Len(exposures) > exposure_max_per_run
    /\ \A a \in 1..Len(LegacyAnalyses) : HasExposure(exposures, LegacyAnalyses[a].id)
(***************************************************************************)
(* main.py: the threads in run_pipeline.  lifespan starts the scheduler,   *)
(* whose interval job calls run_pipeline, and a thread that runs the       *)
(* initial cycle; nothing keeps the two from running at the same time.     *)
(* A thread is followed through the stage functions connection by          *)
(* connection: a with get_connection block is entered (its reads are made) *)
(* and left (its writes are committed and the connection is closed); a     *)
(* request to a service outside the process starts and returns.  The store *)
(* stays reachable.  Ingestion is followed for one adapter, the RSS        *)
(* adapter with one feed.                                                  *)
(***************************************************************************)
Threads == {"initial_pipeline", "scheduler"}

\* the with get_connection blocks that only read
ReadBlocks == {"query", "load_seen", "existing", "item_rows"}

\* the with get_connection blocks that write
WriteBlocks == {"persist", "error_record", "record", "save_seen", "ingest",
                "insert_links", "upsert"}

Blocks == ReadBlocks \cup WriteBlocks

\* a thread that has not entered run_pipeline; plan: the stage functions it is
\* followed through, in call order
Waiting(plan) ==
    [stage |-> "waiting", pc |-> "start", conn |-> FALSE, call |-> "none",
     batch |-> <<>>, out |-> {}, ok |-> 0, error_msg |-> "", seen |-> 0,
     existing |-> {}, plan |-> plan]

\* run_pipeline calls its next stage function, or returns
EnterStage(r) ==
    IF r.plan = <<>>
    THEN [Waiting(<<>>) EXCEPT !.stage = "done", !.pc = "returned"]
    ELSE [Waiting(Tail(r.plan)) EXCEPT
             !.stage = Head(r.plan),
             !.pc = IF Head(r.plan) = "ingestion" THEN "load_seen" ELSE "query"]

\* the tables no stage of a followed thread writes
threadVars == <<now, similarity_dedup_threshold, ing, ing_log, alerts, cycle, run,
                faults, source_errors, scan_order, adapter_state, fetch_log, fn_call>>

\* the tables the stages write
tableVars == <<next_uuid, items, deduplication_records, analyses, analysis_errors,
               exposures, exposure_errors, pipeline_runs, adapter_seen,
               temporal_links, cluster_syntheses>>

\* the thread enters run_pipeline
StartCycle(t) ==
    /\ thr[t].stage = "waiting"
    /\ thr' = [thr EXCEPT ![t] = EnterStage(thr[t])]
    /\ UNCHANGED <<threadVars, tableVars>>

\* the backlog query of the stage, on the tables as they are
StageBacklog(stage) ==
    IF stage = "analysis"
    THEN AnalysisBacklog(items, analyses, analysis_errors)
    ELSE ExposureBacklog(items, analyses, exposures, exposure_errors, exposure_max_per_run)

\* the SELECT of a block that reads, made when the block is entered
Reads(r) ==
    CASE r.pc = "query" /\ r.stage \in {"analysis", "exposure"} ->
             [r EXCEPT !.batch = StageBacklog(r.stage)]
      [] r.pc = "query" /\ r.stage = "temporal_linking" ->
             [r EXCEPT !.batch = RowsReturned(TickerRows(items, analyses, exposures,
                                                         WindowCutoff(now)), scan_order)]
      [] r.pc = "query" /\ r.stage = "cluster_synthesis" ->
             [r EXCEPT !.batch = Clusters(RowsReturned(
                                     TickerRows(items, analyses, exposures,
                                                WindowCutoff(now)), scan_order))]
      [] r.pc = "load_seen" -> [r EXCEPT !.seen = adapter_seen.rss]
      [] r.pc = "existing" -> [r EXCEPT !.existing = cluster_syntheses]
      [] r.pc = "ingest" ->
             [r EXCEPT !.out = {IngestDecision(items,
                                               normalize(Head(r.batch), next_uuid, now),
                                               similarity_dedup_threshold,
                                               DefaultWindowHours, now)}]
      [] OTHER -> r

\* with get_connection(...) as conn: the connection is opened
OpenConnection(t) ==
    /\ thr[t].pc \in Blocks
    /\ ~thr[t].conn
    /\ thr' = [thr EXCEPT ![t] = [Reads(thr[t]) EXCEPT !.conn = TRUE]]
    /\ UNCHANGED <<threadVars, tableVars>>

\* a faulty context manager: no close
LeftOpen(r) == r

\* get_connection, finally: conn.close()
Closed(r) == [r EXCEPT !.conn = FALSE]

\* the loop of run_analysis / run_exposure_mapping goes to its next subject, or
\* the stage to its run record
NextSubject(r) ==
    [r EXCEPT !.batch = Tail(@), !.out = {},
              !.pc = IF Len(r.batch) > 1 THEN "call" ELSE "record"]

\* the loop of run_cluster_synthesis from a cluster on: unchanged clusters are
\* passed over (existing.get(ticker) == item_ids_json: continue)
RECURSIVE DropUnchanged(_, _)
DropUnchanged(clusters, existing) ==
    IF clusters = <<>> \/ ~Unchanged(existing, Head(clusters)) THEN clusters
    ELSE DropUnchanged(Tail(clusters), existing)

ToCluster(r, clusters) ==
    [r EXCEPT !.batch = DropUnchanged(clusters, r.existing), !.out = {},
              !.pc = IF DropUnchanged(clusters, r.existing) = <<>> THEN "record"
                     ELSE "item_rows"]

\* the for loop over raw_items from an item on: normalize(raw) raises ValueError
\* for an invalid item, which the except clause of run_ingestion answers with
\* an alert
ToRaw(r, raws) ==
    IF raws = <<>> THEN [r EXCEPT !.batch = <<>>, !.out = {}, !.pc = "record"]
    ELSE IF _validate_raw_item(Head(raws)) # {}
         THEN [r EXCEPT !.batch = <<>>, !.out = {}, !.pc = "alert",
                        !.error_msg = "Ingestion failed"]
         ELSE [r EXCEPT !.batch = raws, !.out = {}, !.pc = "ingest"]

\* where the code goes on after a block that only reads
AfterRead(r) ==
    CASE r.pc = "load_seen" -> [r EXCEPT !.pc = "call"]
      [] r.pc = "query" /\ r.stage \in {"analysis", "exposure"} ->
             [r EXCEPT !.pc = IF r.batch = <<>> THEN "record" ELSE "call"]
      [] r.pc = "query" /\ r.stage = "temporal_linking" -> [r EXCEPT !.pc = "insert_links"]
      [] r.pc = "query" /\ r.stage = "cluster_synthesis" -> [r EXCEPT !.pc = "existing"]
      [] r.pc = "existing" -> ToCluster(r, r.batch)
      [] r.pc = "item_rows" -> [r EXCEPT !.pc = "call"]

\* a block that only reads is left
LeaveReadBlock(t) ==
    /\ thr[t].conn
    /\ thr[t].pc \in ReadBlocks
    /\ thr' = [thr EXCEPT ![t] = Closed(AfterRead(thr[t]))]
    /\ UNCHANGED <<threadVars, tableVars>>

\* _persist_analysis / _persist_exposure: the INSERT is committed
CommitPersist(t) ==
    /\ thr[t].conn
    /\ thr[t].pc = "persist"
    /\ thr' = [thr EXCEPT ![t] = Closed(NextSubject(thr[t]))]
    /\ next_uuid' = next_uuid + 1
    /\ \E out \in thr[t].out :
          IF thr[t].stage = "analysis"
          THEN /\ analyses' = Append(analyses, AnalysisRow(next_uuid, Head(thr[t].batch),
                                                           out, now))
               /\ UNCHANGED exposures
          ELSE /\ exposures' = Append(exposures, ExposureRow(next_uuid, Head(thr[t].batch),
                                                             out))
               /\ UNCHANGED analyses
    /\ UNCHANGED <<threadVars, items, deduplication_records, analysis_errors,
                   exposure_errors, pipeline_runs, adapter_seen, temporal_links,
                   cluster_syntheses>>

\* _record_analysis_error / _record_exposure_error: the upsert is committed
CommitErrorRecord(t) ==
    /\ thr[t].conn
    /\ thr[t].pc = "error_record"
    /\ thr' = [thr EXCEPT ![t] = Closed(NextSubject(thr[t]))]
    /\ IF thr[t].stage = "analysis"
       THEN /\ analysis_errors' = _record_analysis_error(analysis_errors,
                                                         Head(thr[t].batch))
            /\ UNCHANGED exposure_errors
       ELSE /\ exposure_errors' = _record_exposure_error(exposure_errors,
                                                         Head(thr[t].batch))
            /\ UNCHANGED analysis_errors
    /\ UNCHANGED <<threadVars, next_uuid, items, deduplication_records, analyses,
                   exposures, pipeline_runs, adapter_seen, temporal_links,
                   cluster_syntheses>>

\* _record_run: the row is committed and the stage function returns
CommitRunRecord(t) ==
    /\ thr[t].conn
    /\ thr[t].pc = "record"
    /\ thr' = [thr EXCEPT ![t] = Closed(EnterStage(thr[t]))]
    /\ pipeline_runs' = Append(pipeline_runs,
                               RunRow([stage |-> thr[t].stage,
                                       error_msg |-> thr[t].error_msg,
                                       ok |-> thr[t].ok]))
    /\ UNCHANGED <<threadVars, next_uuid, items, deduplication_records, analyses,
                   analysis_errors, exposures, exposure_errors, adapter_seen,
                   temporal_links, cluster_syntheses>>

\* the service a stage calls in its loop
ServiceOf(stage) ==
    CASE stage = "ingestion" -> "http"
      [] stage = "analysis" -> "classification"
      [] stage = "exposure" -> "exposure_mapping"
      [] stage = "cluster_synthesis" -> "cluster_synthesis"

\* httpx.get, _call_llm, send_message: the request is sent
CallService(t) ==
    /\ thr[t].pc \in {"call", "alert"}
    /\ thr' = [thr EXCEPT ![t].pc = "in_flight",
                          ![t].call = IF thr[t].pc = "alert" THEN "notification"
                                      ELSE ServiceOf(thr[t].stage)]
    /\ UNCHANGED <<threadVars, tableVars>>

\* the request of classify_item / map_exposures is over: a validated output,
\* which the function goes on to persist; a typed error, which the stage
\* records unless it is the transient code, on which it leaves its loop; or
\* an exception
LLMReturns(t) ==
    /\ thr[t].pc = "in_flight"
    /\ thr[t].call \in {"classification", "exposure_mapping"}
    /\ LET r == [thr[t] EXCEPT !.call = "none"] IN
       \/ \E out \in IF r.stage = "analysis" THEN ClassifyOutputs ELSE MapOutputs :
             thr' = [thr EXCEPT ![t] = [r EXCEPT !.pc = "persist", !.out = {out}]]
       \/ \E code \in IF r.stage = "analysis" THEN AnalysisErrorCodes
                      ELSE ExposureErrorCodes :
             thr' = [thr EXCEPT ![t] =
                        IF HaltsBatch(code)
                        THEN [r EXCEPT !.pc = "record", !.batch = <<>>]
                        ELSE [r EXCEPT !.pc = "error_record"]]
       \/ thr' = [thr EXCEPT ![t] = [r EXCEPT !.pc = "error_record"]]
    /\ UNCHANGED <<threadVars, tableVars>>

NextOverlap ==
    \E t \in Threads :
        \/ StartCycle(t)
        \/ OpenConnection(t)
        \/ LeaveReadBlock(t)
        \/ CommitPersist(t)
        \/ CommitErrorRecord(t)
        \/ CommitRunRecord(t)
        \/ CallService(t)
        \/ LLMReturns(t)

\* a store that earlier cycles have filled, as in Init, with the exposures of the
\* two newer analyses in place; both threads are followed through run_analysis
\* and run_exposure_mapping
InitOverlap ==
    /\ now = 0
    /\ next_uuid = 10
    /\ items = LegacyItems
    /\ deduplication_records = <<>>
    /\ similarity_dedup_threshold = 0
    /\ ing = [c \in Callers |-> Idle]
    /\ ing_log = <<>>
    /\ analyses = LegacyAnalyses
    /\ analysis_errors = (4 :> 2)
    /\ exposures = <<ExposureRow(8, 6, [tickers |-> <<"T1">>, skipped |-> FALSE]),
                     ExposureRow(9, 7, [tickers |-> <<"T1">>, skipped |-> FALSE])>>
    /\ exposure_errors = (5 :> 2)
    /\ pipeline_runs = LegacyRuns
    /\ alerts = <<>>
    /\ adapter_seen = [hn |-> 0, rss |-> 0]
    /\ cycle = 0
    /\ run = NoRun
    /\ faults = 0
    /\ temporal_links = {}
    /\ cluster_syntheses = {}
    /\ source_errors = <<>>
    /\ scan_order = "table"
    /\ adapter_state = <<>>
    /\ fetch_log = NoFetches
    /\ fn_call = NoCall
    /\ thr = [t \in Threads |-> Waiting(<<"analysis", "exposure">>)]

SpecOverlap == InitOverlap /\ [][NextOverlap]_vars

(***************************************************************************)
(* One thread, followed through the five stage functions of a cycle        *)
(***************************************************************************)
\* RSSAdapter._fetch_feed after httpx.get: the entries not seen before, or an
\* HTTP error, on which it returns no items and saves nothing
FeedReturns(t) ==
    /\ thr[t].pc = "in_flight"
    /\ thr[t].call = "http"
    /\ LET r == [thr[t] EXCEPT !.call = "none"] IN
       \/ thr' = [thr EXCEPT ![t] =
                     [r EXCEPT !.pc = "save_seen",
                               !.batch = SubSeq(Upstream.rss, r.seen + 1,
                                                Len(Upstream.rss))]]
       \/ thr' = [thr EXCEPT ![t] = [r EXCEPT !.pc = "record"]]
    /\ UNCHANGED <<threadVars, tableVars>>

\* _save_seen_urls: the seen set with the entries just returned is committed;
\* fetch returns and the loop over raw_items starts
CommitSeen(t) ==
    /\ thr[t].conn
    /\ thr[t].pc = "save_seen"
    /\ thr' = [thr EXCEPT ![t] = Closed(ToRaw(thr[t], thr[t].batch))]
    /\ adapter_seen' = [adapter_seen EXCEPT !.rss = Len(Upstream.rss)]
    /\ UNCHANGED <<threadVars, next_uuid, items, deduplication_records, analyses,
                   analysis_errors, exposures, exposure_errors, pipeline_runs,
                   temporal_links, cluster_syntheses>>

\* ingest_item: the deduplication record or the item is committed; an
\* IntegrityError reaches the except clause of run_ingestion
CommitIngest(t) ==
    /\ thr[t].conn
    /\ thr[t].pc = "ingest"
    /\ \E d \in thr[t].out :
       \E st \in {IngestWrite([items |-> items, records |-> deduplication_records,
                               next_uuid |-> next_uuid + 1, new |-> 0, dup |-> 0,
                               raised |-> FALSE],
                              normalize(Head(thr[t].batch), next_uuid, now), d)} :
          /\ items' = st.items
          /\ deduplication_records' = st.records
          /\ next_uuid' = st.next_uuid
          /\ thr' = [thr EXCEPT ![t] =
                        Closed(IF st.raised
                               THEN [thr[t] EXCEPT !.batch = <<>>, !.out = {},
                                                   !.pc = "alert",
                                                   !.error_msg = "Ingestion failed"]
                               ELSE ToRaw([thr[t] EXCEPT !.ok = @ + st.new],
                                          Tail(thr[t].batch)))]
    /\ UNCHANGED <<threadVars, analyses, analysis_errors, exposures, exposure_errors,
                   pipeline_runs, adapter_seen, temporal_links, cluster_syntheses>>

\* _send_alert: send_message is over; it never raises
AlertSent(t) ==
    /\ thr[t].pc = "in_flight"
    /\ thr[t].call = "notification"
    /\ thr' = [thr EXCEPT ![t].call = "none", ![t].pc = "record"]
    /\ UNCHANGED <<threadVars, tableVars>>

\* run_temporal_linking, second block: the INSERT OR IGNORE of every pair is
\* committed
CommitLinks(t) ==
    /\ thr[t].conn
    /\ thr[t].pc = "insert_links"
    /\ temporal_links' = InsertOrIgnoreLinks(temporal_links, PairData(thr[t].batch, now))
    /\ thr' = [thr EXCEPT ![t] = Closed([thr[t] EXCEPT !.batch = <<>>, !.pc = "record"])]
    /\ UNCHANGED <<threadVars, next_uuid, items, deduplication_records, analyses,
                   analysis_errors, exposures, exposure_errors, pipeline_runs,
                   adapter_seen, cluster_syntheses>>

\* the request of synthesize_cluster is over: a synthesis, which the stage
\* upserts; a typed error (the transient code ends the loop); or an exception
SynthesisReturns(t) ==
    /\ thr[t].pc = "in_flight"
    /\ thr[t].call = "cluster_synthesis"
    /\ LET r == [thr[t] EXCEPT !.call = "none"] IN
       \/ thr' = [thr EXCEPT ![t] = [r EXCEPT !.pc = "upsert"]]
       \/ \E code \in SynthesisErrorCodes :
             thr' = [thr EXCEPT ![t] =
                        IF HaltsBatch(code)
                        THEN [r EXCEPT !.pc = "record", !.batch = <<>>]
                        ELSE ToCluster(r, Tail(r.batch))]
       \/ thr' = [thr EXCEPT ![t] = ToCluster(r, Tail(r.batch))]
    /\ UNCHANGED <<threadVars, tableVars>>

\* the upsert of one cluster is committed
CommitSynthesis(t) ==
    /\ thr[t].conn
    /\ thr[t].pc = "upsert"
    /\ cluster_syntheses' = UpsertSynthesis(cluster_syntheses, Head(thr[t].batch), now)
    /\ thr' = [thr EXCEPT ![t] = Closed(ToCluster(thr[t], Tail(thr[t].batch)))]
    /\ UNCHANGED <<threadVars, next_uuid, items, deduplication_records, analyses,
                   analysis_errors, exposures, exposure_errors, pipeline_runs,
                   adapter_seen, temporal_links>>

\* the scheduler's job does not fire while the initial cycle runs
NextConn ==
    \E t \in {"initial_pipeline"} :
        \/ StartCycle(t)
        \/ OpenConnection(t)
        \/ LeaveReadBlock(t)
        \/ CommitPersist(t)
        \/ CommitErrorRecord(t)
        \/ CommitRunRecord(t)
        \/ CallService(t)
        \/ LLMReturns(t)
        \/ FeedReturns(t)
        \/ CommitSeen(t)
        \/ CommitIngest(t)
        \/ AlertSent(t)
        \/ CommitLinks(t)
        \/ SynthesisReturns(t)
        \/ CommitSynthesis(t)

\* the store of InitOverlap, one cluster synthesis in place or none
InitConn ==
    /\ now = 0
    /\ next_uuid = 10
    /\ items = LegacyItems
    /\ deduplication_records = <<>>
    /\ similarity_dedup_threshold = 0
    /\ ing = [c \in Callers |-> Idle]
    /\ ing_log = <<>>
    /\ analyses = LegacyAnalyses
    /\ analysis_errors = (4 :> 2)
    /\ exposures = <<ExposureRow(8, 6, [tickers |-> <<"T1">>, skipped |-> FALSE]),
                     ExposureRow(9, 7, [tickers |-> <<"T1">>, skipped |-> FALSE])>>
    /\ exposure_errors = (5 :> 2)
    /\ pipeline_runs = LegacyRuns
    /\ alerts = <<>>
    /\ adapter_seen = [hn |-> 0, rss |-> 0]
    /\ cycle = 0
    /\ run = NoRun
    /\ faults = 0
    /\ temporal_links = {}
    /\ cluster_syntheses \in {{}, {SynthesisRow([ticker |-> "T1", item_ids |-> <<2, 3>>],
                                                -1)}}
    /\ source_errors = <<>>
    /\ scan_order \in ScanOrders
    /\ adapter_state = <<>>
    /\ fetch_log = NoFetches
    /\ fn_call = NoCall
    /\ thr = [t \in Threads |-> Waiting(Stages)]

SpecConn == InitConn /\ [][NextConn]_vars

(***************************************************************************)
(* Connections and requests (SpecConn)                                     *)
(***************************************************************************)
\* the services outside the process
Services == {"http", "classification", "exposure_mapping", "cluster_synthesis",
             "notification"}

\* C33: while a request to a service outside the process is in flight (the
\* feed's HTTP fetch, classification, exposure mapping, cluster synthesis, the
\* alert), the calling thread holds no open store connection; a connection is
\* open only inside a with get_connection block.
C33_NoConnectionAcrossCall ==
    \A t \in Threads :
        /\ thr[t].call \in Services \cup {"none"}
        /\ thr[t].call # "none" => ~thr[t].conn
        /\ thr[t].pc = "in_flight" <=> thr[t].call # "none"
        /\ thr[t].conn => thr[t].pc \in Blocks

\* the cluster-synthesis request is in flight in a cycle whose feed fetch,
\* classification and exposure-mapping requests have returned and whose results
\* have been committed
C33_Witness ==
    \E t \in Threads :
        /\ thr[t].call = "cluster_synthesis"
        /\ adapter_seen.rss > 0
        /\ Len(items) > Len(LegacyItems)
        /\ Len(analyses) > Len(LegacyAnalyses)
        /\ \E e \in 1..Len(exposures) : exposures[e].analysis_id = 5

(***************************************************************************)
(* Properties of overlapping cycles (SpecOverlap)                          *)
(***************************************************************************)
\* C34: every item has at most one analyses row and every analysis at most one
\* exposures row.
C34_OneResultPerSubject ==
    /\ \A a, b \in 1..Len(analyses) :
          analyses[a].item_id = analyses[b].item_id => a = b
    /\ \A e, f \in 1..Len(exposures) :
          exposures[e].analysis_id = exposures[f].analysis_id => e = f

\* C35: every analysis_errors and exposure_errors record has an attempt_count
\* from 1 to 3.
C35_AttemptCountBounded ==
    /\ \A item_id \in DOMAIN analysis_errors :
          /\ 1 <= analysis_errors[item_id]
          /\ analysis_errors[item_id] <= _MAX_CLASSIFICATION_ATTEMPTS
    /\ \A analysis_id \in DOMAIN exposure_errors :
          /\ 1 <= exposure_errors[analysis_id]
          /\ exposure_errors[analysis_id] <= _MAX_EXPOSURE_ATTEMPTS
(***************************************************************************)
(* Repeated analysis runs on a fixed item set (SpecRetry): the scheduler's *)
(* interval trigger calls run_pipeline again and again; the thread is      *)
(* followed through run_analysis.  The classification service never        *)
(* answers with the transient code, and the store stays reachable.         *)
(***************************************************************************)
MaxTriggers == 3

\* IntervalTrigger: the job fires again once its last instance has returned
TriggerFires(t) ==
    /\ thr[t].stage = "done"
    /\ cycle < MaxTriggers
    /\ cycle' = cycle + 1
    /\ thr' = [thr EXCEPT ![t] = Waiting(<<"analysis">>)]
    /\ UNCHANGED <<now, similarity_dedup_threshold, ing, ing_log, alerts, run, faults,
                   source_errors, scan_order, adapter_state, fetch_log, fn_call,
                   tableVars>>

\* the request ended with the transient code and the stage has left its loop
TransientAnswer(t) == thr[t].pc = "in_flight" /\ thr'[t].pc = "record"

NextRetry ==
    \E t \in {"scheduler"} :
        \/ StartCycle(t)
        \/ OpenConnection(t)
        \/ LeaveReadBlock(t)
        \/ CommitPersist(t)
        \/ CommitErrorRecord(t)
        \/ CommitRunRecord(t)
        \/ CallService(t)
        \/ LLMReturns(t) /\ ~TransientAnswer(t)
        \/ TriggerFires(t)

\* four items, one of them analysed; of the other three, one has failed twice
InitRetry ==
    /\ now = 0
    /\ next_uuid = 10
    /\ items = LegacyItems
    /\ deduplication_records = <<>>
    /\ similarity_dedup_threshold = 0
    /\ ing = [c \in Callers |-> Idle]
    /\ ing_log = <<>>
    /\ analyses = SubSeq(LegacyAnalyses, 1, 1)
    /\ analysis_errors = (4 :> 2)
    /\ exposures = <<>>
    /\ exposure_errors = <<>>
    /\ pipeline_runs = <<>>
    /\ alerts = <<>>
    /\ adapter_seen = [hn |-> 0, rss |-> 0]
    /\ cycle = 0
    /\ run = NoRun
    /\ faults = 0
    /\ temporal_links = {}
    /\ cluster_syntheses = {}
    /\ source_errors = <<>>
    /\ scan_order = "table"
    /\ adapter_state = <<>>
    /\ fetch_log = NoFetches
    /\ fn_call = NoCall
    /\ thr = [t \in {"scheduler"} |-> Waiting(<<"analysis">>)]

\* the trigger keeps firing and a stage function keeps running
SpecRetry == InitRetry /\ [][NextRetry]_vars /\ WF_vars(NextRetry)

\* the analysis runs that have returned
AnalysisRunsDone ==
    Cardinality({n \in 1..Len(pipeline_runs) : pipeline_runs[n].run_type = "analysis"})

\* the item has left the analysis backlog: it has an analysis or 3 failed attempts
LeftBacklog(item_id) ==
    \/ HasAnalysis(analyses, item_id)
    \/ AttemptCount(analysis_errors, item_id) >= _MAX_CLASSIFICATION_ATTEMPTS

\* C36: with no api_error answer and a reachable store, once three analysis runs
\* have returned every item has an analysis or 3 failed attempts and the
\* backlog query selects nothing; an item that has left the backlog stays out;
\* and the backlog does become empty and stays empty.
C36_BacklogDrains ==
    /\ [](AnalysisRunsDone >= _MAX_CLASSIFICATION_ATTEMPTS
            => /\ \A k \in 1..Len(items) : LeftBacklog(items[k].id)
               /\ AnalysisBacklog(items, analyses, analysis_errors) = <<>>)
    /\ [][\A k \in 1..Len(items) :
             LeftBacklog(items[k].id) => LeftBacklog(items[k].id)']_vars
    /\ <>[](AnalysisBacklog(items, analyses, analysis_errors) = <<>>)

\* the third run has emptied the backlog: one item failed in all three runs,
\* another was analysed in the third, and a fourth run has found nothing
C36_Witness ==
    /\ AnalysisRunsDone = _MAX_CLASSIFICATION_ATTEMPTS + 1
    /\ AnalysisBacklog(items, analyses, analysis_errors) = <<>>
    /\ AttemptCount(analysis_errors, 2) = 3
    /\ AttemptCount(analysis_errors, 3) = 2
    /\ HasAnalysis(analyses, 3)

(***************************************************************************)
(* The graph of temporal links                                             *)
(***************************************************************************)
\* an item has two rows under one ticker: its exposure names the ticker twice
ListedTwice(item_id) ==
    \E e \in 1..Len(exposures) :
        /\ ~exposures[e].skipped
        /\ \E a \in 1..Len(analyses) :
              analyses[a].id = exposures[e].analysis_id /\ analyses[a].item_id = item_id
        /\ \E m, n \in 1..Len(exposures[e].tickers) :
              m # n /\ exposures[e].tickers[m] = exposures[e].tickers[n]

\* C37: in every reachable state no temporal link has the same item as source
\* and target, and no two links join the same two items in opposite directions;
\* this covers an item listed twice under one ticker and two items with equal
\* timestamps.
C37_LinkGraph ==
    /\ \A l \in temporal_links : l.source_item_id # l.target_item_id
    /\ \A l, m \in temporal_links :
          ~(/\ l.source_item_id = m.target_item_id
            /\ l.target_item_id = m.source_item_id
            /\ l.source_item_id # l.target_item_id)

\* the antisymmetric half alone: no two links in opposite directions
LinksAntisymmetric ==
    \A l, m \in temporal_links :
        (l.source_item_id = m.target_item_id /\ l.target_item_id = m.source_item_id)
           => l.source_item_id = l.target_item_id

\* two items with the same timestamp text are linked
EqualTimesLinked ==
    \E l \in temporal_links :
        /\ l.source_item_id # l.target_item_id
        /\ TimestampOf(l.source_item_id) = TimestampOf(l.target_item_id)

(***************************************************************************)
(* From the adapter's seen set to the item store                           *)
(***************************************************************************)
\* the raw items an adapter has marked seen: the entries of its source up to
\* the mark
MarkedSeen(type) == SubSeq(Upstream[type], 1, adapter_seen[type])

\* the ingestion run of the cycle has left its loop
IngestionEnded ==
    run.stage = "ingestion" /\ run.pos \in {"record", "returned", "raised"}

\* C38: when an ingestion run ends, every valid raw item that an adapter has
\* marked seen is in the item store, as an item or as the duplicate of a stored
\* item with its fingerprint, whatever failed for another raw item or adapter
\* of the run.
C38_NoItemLost ==
    IngestionEnded
    => \A type \in DOMAIN Upstream :
          \A n \in 1..Len(MarkedSeen(type)) :
              _validate_raw_item(MarkedSeen(type)[n]) = {}
                 => StoredHash(items, MarkedSeen(type)[n])

(***************************************************************************)
(* From the classification stage to the exposure backlog                   *)
(***************************************************************************)
\* the rows written by _persist_analysis in this run of the program: the rows
\* behind the backfilled ones.  validate_output of the classifier accepts an
\* answer only with a dimension of relevance primary, so each has one.
PersistedByStage ==
    {a \in 1..Len(analyses) : a > Len(LegacyAnalyses)}

\* C39: every analysis that the classification stage has persisted with
\* importance medium or high (and a primary dimension) is marked eligible for
\* exposure mapping, so that the backlog query of a later exposure run, which
\* selects eligible rows only, can return it.
C39_PersistedIsEligible ==
    \A a \in PersistedByStage :
        analyses[a].importance \in {"medium", "high"}
           => analyses[a].eligible_for_exposure_mapping

(***************************************************************************)
(* The five stages of a cycle                                              *)
(***************************************************************************)
\* the stage invocation has ended: it has returned to run_pipeline, or an
\* exception has left the stage function
StageEnded == run.stage # "none" /\ run.pos \in {"returned", "raised"}

\* C40: whatever happened inside a stage, the failure of its run record write
\* included, the stage function returns to run_pipeline and the stage that
\* follows it in the cycle is invoked: no exception leaves a stage function.
C40_FollowingStageRuns ==
    StageEnded
    => /\ run.pos = "returned"
       /\ \A k \in 1..(Len(Stages) - 1) :
             run.stage = Stages[k] => CanStart(Stages[k + 1])

\* the same for the failures caught by the stage's own except clause
TopLevelFailureContained ==
    (StageEnded /\ run.error_msg # "" /\ RowOfThisRun)
    => \A k \in 1..(Len(Stages) - 1) :
          run.stage = Stages[k] => CanStart(Stages[k + 1])

====
